---- MODULE Spec2Model ----
(***************************************************************************)
(* Model of the Bluetti BLE command/response engine.                       *)
(*                                                                         *)
(*   BluettiClient            src/bluetti_lib/client.py                    *)
(*   StandaloneBluettiClient  src/bluetti_standalone.py                    *)
(*   SyncBluettiClient        src/bluetti_standalone.py                    *)
(*   DomoticzBluettiWrapper   src/domoticz_bluetti_wrapper.py              *)
(*                                                                         *)
(* Caller threads run the blocking facade calls; every coroutine handed    *)
(* to an event loop is a task that advances from one await to the next in  *)
(* one atomic step.  The BLE stack and the device are the environment:     *)
(* every awaited BLE operation ends with one of Outcomes, and the device   *)
(* answers a write with a response it splits into notification chunks.     *)
(* A blocking wait with a timeout may give up whenever the awaited task    *)
(* has not finished.  None is written 0 for loops and task handles.        *)
(***************************************************************************)
EXTENDS Integers, Sequences, FiniteSets, TLC

\* ------------------------------------------------------------------ bounds

\* Caller threads that share one client object.
Threads == {"t1", "t2"}

\* Facade calls made in one behaviour (all threads together).
MaxCalls == 3

\* Bytes the device puts in one notification (the negotiated payload size).
\* A response longer than this arrives in several chunks.
Mtu == 4

\* The notification size of a StandaloneBluettiClient connection: one that
\* holds any response whole.
BigMtu == 512

\* SyncBluettiClient calls made in one behaviour (all threads together).
MaxSyncCalls == 2

\* Pack slots polled (the code polls range(1, 7)).
MaxPack == 1

\* Main read commands polled (the code's polling_commands has three).
MaxMain == 1

\* ------------------------------------------------------------------ codec

Bit(a, i) == (a \div (2 ^ i)) % 2

\* a ^ b on 4-bit values, tabulated.
Xor4 ==
  [a \in 0..15 |-> [b \in 0..15 |->
     ((Bit(a, 0) + Bit(b, 0)) % 2) + 2 * ((Bit(a, 1) + Bit(b, 1)) % 2)
     + 4 * ((Bit(a, 2) + Bit(b, 2)) % 2) + 8 * ((Bit(a, 3) + Bit(b, 3)) % 2)]]

\* a ^ b on 16-bit values, four bits at a time.
BitXor(a, b) ==
  Xor4[a % 16][b % 16]
  + 16 * Xor4[(a \div 16) % 16][(b \div 16) % 16]
  + 256 * Xor4[(a \div 256) % 16][(b \div 256) % 16]
  + 4096 * Xor4[(a \div 4096) % 16][(b \div 4096) % 16]

\* One bit of the reflected CRC-16 with polynomial 0xA001.
CrcShift(crc) ==
  IF crc % 2 = 1 THEN BitXor(crc \div 2, 40961) ELSE crc \div 2

\* The byte table of the CRC: eight shifts of each byte value.
CrcTable ==
  [n \in 0..255 |->
     CrcShift(CrcShift(CrcShift(CrcShift(
       CrcShift(CrcShift(CrcShift(CrcShift(n))))))))]

\* One byte: crc = (crc >> 8) ^ table[(crc ^ byte) & 0xFF].
CrcByte(crc, byte) == BitXor(crc \div 256, CrcTable[BitXor(crc % 256, byte)])

RECURSIVE CrcRange(_, _, _, _)
\* The CRC register after data[lo..hi], starting from crc; the range is
\* folded in halves, left half first.
CrcRange(crc, data, lo, hi) ==
  IF lo > hi THEN crc
  ELSE IF lo = hi THEN CrcByte(crc, data[lo])
  ELSE LET mid == (lo + hi) \div 2
       IN  CHOOSE r \in {CrcRange(v, data, mid + 1, hi) :
                           v \in {CrcRange(crc, data, lo, mid)}} : TRUE

\* crcmod.predefined.mkCrcFun('modbus'): initial value 0xFFFF, no final xor.
modbus_crc(data) == CrcRange(65535, data, 1, Len(data))

\* struct.pack_into('<H', ...) / int.to_bytes(2, 'little').
PackLE(v) == <<v % 256, (v \div 256) % 256>>

\* The two bytes of a field in the other order, low byte first.
PackSwapped(v) == <<v % 256, (v \div 256) % 256>>

\* struct.pack('!H', v): big-endian 16 bits.
PackBE(v) == <<(v \div 256) % 256, v % 256>>

\* x[:-2] and x[-2:] of Python, for any length.
DropLast2(x) == IF Len(x) <= 2 THEN <<>> ELSE SubSeq(x, 1, Len(x) - 2)
Last2(x) == IF Len(x) <= 2 THEN x ELSE SubSeq(x, Len(x) - 1, Len(x))

\* ModbusCommand.__init__: address 1, function code, data, CRC low byte first.
ModbusCommand(function_code, data) ==
  LET body == <<1, function_code>> \o data
  IN  body \o PackLE(modbus_crc(body))

ReadHoldingRegisters(starting_address, quantity) ==
  [fc |-> 3, addr |-> starting_address, arg |-> quantity]

WriteSingleRegister(address, value) ==
  [fc |-> 6, addr |-> address, arg |-> value]

\* ModbusCommand.encode
encode(command) ==
  ModbusCommand(command.fc, PackBE(command.addr) \o PackBE(command.arg))

\* A validator that reads the CRC bytes high byte first.
is_valid_response_big_endian(response) ==
  IF Len(response) < 3 THEN FALSE
  ELSE Last2(response) = PackBE(modbus_crc(DropLast2(response)))

\* A validator that compares the low byte of the CRC only.
is_valid_response_low_byte(response) ==
  IF Len(response) < 3 THEN FALSE
  ELSE response[Len(response) - 1] = modbus_crc(DropLast2(response)) % 256

\* ModbusCommand.is_valid_response
is_valid_response(response) ==
  IF Len(response) < 3 THEN FALSE
  ELSE Last2(response) = PackLE(modbus_crc(DropLast2(response)))

\* ModbusCommand.parse_response: response[3:-2], b'' when shorter than 3.
parse_response(response) ==
  IF Len(response) < 3 THEN <<>>
  ELSE IF Len(response) <= 5 THEN <<>>
  ELSE SubSeq(response, 4, Len(response) - 2)

\* A threshold that leaves out the two CRC bytes.
response_size_without_crc(command) == 3 + 2 * command.arg

\* A threshold of nine bytes for the echo of a write.
response_size_nine(command) ==
  IF command.fc = 6 THEN 9 ELSE 3 + 2 * command.arg + 2

\* DeviceCommand.response_size of bluetti_lib.commands, a module that is not
\* among the sources (read: header 3, two bytes per register, CRC 2; write:
\* the length of the echoed frame).  Its is_valid_response and
\* parse_response are taken to be the ModbusCommand ones above.
response_size(command) ==
  IF command.fc = 6 THEN Len(encode(command)) ELSE 3 + 2 * command.arg + 2

\* ------------------------------------------------------------------ state

VARIABLES
  is_connected,        \* BluettiClient.is_connected
  loop,                \* BluettiClient.loop: 0 (None) or the id of an event loop
  runner,              \* BluettiClient.runner: 0 (None) or the loop its thread runs
  lock,                \* BluettiClient.lock: "free" or the thread that holds it
  running,             \* loops whose worker thread is inside run_forever
  nloops,              \* event loops created so far
  tasks,               \* coroutines submitted with run_coroutine_threadsafe
  notification_queue,  \* BluettiClient.notification_queue
  link,                \* BleakClient.is_connected
  notifying,           \* the notify characteristic is subscribed
  devResp,             \* responses (what is left of them) the device has to send
  pc,                  \* where each caller thread is
  fut,                 \* the task a caller thread waits for (0: none)
  ret,                 \* what the thread's last call returned
  inPerform,           \* the thread runs disconnect() from perform()'s handler
  arg,                 \* the command the thread passed to perform()
  op,                  \* the facade call the thread is in, or made last
  how,                 \* history: the way the thread's last call ended
  calls,               \* facade calls made so far
  mtu,                 \* bytes per notification on this connection
  sync,                \* SyncBluettiClient: client (0: None) and connected
  sa,                  \* the StandaloneBluettiClient objects created so far
  pack_selected,       \* device: the pack slot its register window shows
  got,                 \* the field map poll_data() returned to each thread
  program,             \* the client class the program under study drives
  now,                 \* the event loop's clock: loop.time(), in ticks
  wrapper,             \* DomoticzBluettiWrapper: its attributes and its worker
  codec,               \* a command, a frame and what the codec made of them
  plugin,              \* BasePlugin: its attributes, its update thread, the host
  observed             \* history: the frame last validated, the frame last parsed

vars == <<is_connected, loop, runner, lock, running, nloops, tasks,
          notification_queue, link, notifying, devResp, pc, fut, ret,
          inPerform, arg, op, how, calls, mtu, sync, sa, pack_selected,
          got, program, now, wrapper, codec, plugin, observed>>

\* The state of SyncBluettiClient and its StandaloneBluettiClient objects.
standalone == <<sync, sa, pack_selected, got, program>>

\* The state only BluettiClient has.
facade == <<is_connected, runner, lock, notification_queue, link, notifying,
            devResp, inPerform>>

\* What an awaited BLE operation can end with.
Outcomes == {"ok", "BleakError", "TimeoutError", "OtherError"}

\* The commands the callers pass to perform().
Commands == {ReadHoldingRegisters(10, 1)}

NoCommand == [fc |-> 0, addr |-> 0, arg |-> 0]

\* A read response carrying one register value, as the device frames it.
ReadResponse(command, value) ==
  LET body == <<1, 3, 2 * command.arg>> \o PackBE(value)
  IN  body \o PackLE(modbus_crc(body))

\* The same frame with its last data byte damaged in transit.
Damaged(frame) ==
  [frame EXCEPT ![Len(frame) - 2] = (frame[Len(frame) - 2] + 1) % 256]

\* What the device may answer to each command: the frame, or a damaged one.
\* (A device that does not answer in time is the transaction's timeout.)
DeviceResponses ==
  [command \in Commands |->
     {ReadResponse(command, 77), Damaged(ReadResponse(command, 77))}]

\* The size of the next notification chunk the device cuts from a response.
ChunkSize(bytes) == IF Len(bytes) > mtu THEN mtu ELSE Len(bytes)

Task(co, lp, command) ==
  [co |-> co, loop |-> lp, pc |-> "start", cmd |-> command,
   response |-> <<>>, exc |-> "none", ok |-> FALSE, res |-> <<>>,
   start |-> 0, since |-> 0]

\* A finished coroutine whose future nobody holds any more.
Dropped(task) ==
  [task EXCEPT !.pc = "done", !.response = <<>>, !.exc = "none",
               !.ok = FALSE, !.res = <<>>, !.start = 0, !.since = 0]

\* The coroutine ended: normally with a result, or with an exception.  Its
\* buffer is gone, and so is its outcome unless a caller still waits for it.
Finish(i, exc, ok, res) ==
  IF \E t \in Threads : fut[t] = i
  THEN [tasks EXCEPT ![i].pc = "done", ![i].response = <<>>, ![i].exc = exc,
                     ![i].ok = ok, ![i].res = res, ![i].start = 0,
                     ![i].since = 0]
  ELSE [tasks EXCEPT ![i] = Dropped(@)]

\* The caller stops waiting for its future.
Forget(i) ==
  [tasks EXCEPT ![i] = IF @.pc = "done" THEN Dropped(@) ELSE @]

\* DomoticzBluettiWrapper.__init__: not running, not connected, no BLE
\* client, empty queues, and no worker thread (pc "none").
NoWrapper ==
  [is_running |-> FALSE, is_connected |-> FALSE, ble_client |-> 0,
   clients |-> <<>>, fields |-> {}, command_queue |-> <<>>,
   result_queue |-> <<>>, pc |-> "none", k |-> 0,
   register |-> 0, value |-> 0]

\* BasePlugin.__init__: no client, no update thread, no shutdown event, an
\* empty command queue, next_poll_time 0; the host has not called onStart.
\* item is the number of the item the update thread is working on, details
\* its register and value, and success what send_command() returned for it.  puts, taken, polled,
\* disconnects and stops are history: who put each item so far, the items
\* taken, the time of the last poll onHeartbeat queued, and the calls of the
\* client's disconnect() and stop().
NoPlugin ==
  [host |-> "loaded", thread |-> "none", shutdown_event |-> "None",
   command_queue |-> <<>>, next_poll_time |-> 0, bluetti_client |-> "None",
   item |-> 0, details |-> <<>>, success |-> "-", puts |-> <<>>, taken |-> <<>>,
   polled |-> -1, disconnects |-> 0, stops |-> 0]

\* No command in the codec's hands.
NoCodec ==
  [command |-> NoCommand, frame |-> <<>>, stage |-> "none", valid |-> "-",
   size |-> 0]

Init ==
  /\ is_connected = FALSE
  /\ loop = 0
  /\ runner = 0
  /\ lock = "free"
  /\ running = {}
  /\ nloops = 0
  /\ tasks = <<>>
  /\ notification_queue = <<>>
  /\ link = FALSE
  /\ notifying = FALSE
  /\ devResp = <<>>
  /\ pc = [t \in Threads |-> "idle"]
  /\ fut = [t \in Threads |-> 0]
  /\ ret = [t \in Threads |-> "-"]
  /\ inPerform = [t \in Threads |-> FALSE]
  /\ arg = [t \in Threads |-> NoCommand]
  /\ op = [t \in Threads |-> "-"]
  /\ how = [t \in Threads |-> "-"]
  /\ calls = 0
  /\ mtu = Mtu
  /\ sync = [client |-> 0, connected |-> FALSE]
  /\ sa = <<>>
  /\ pack_selected = 0
  /\ got = [t \in Threads |-> {}]
  /\ program = "BluettiClient"
  /\ now = 0
  /\ wrapper = NoWrapper
  /\ codec = NoCodec
  /\ plugin = NoPlugin
  /\ observed = [validated |-> <<>>, parsed |-> <<>>,
                 connectFailed |-> FALSE]

\* ------------------------------------------------- BluettiClient: the loop

\* A coroutine that advances whether or not a thread runs its loop.
RunnableAnywhere(i, co, at) ==
  /\ i \in DOMAIN tasks
  /\ tasks[i].co = co
  /\ tasks[i].pc = at

\* A coroutine advances only while the worker thread of its loop runs.
Runnable(i, co, at) ==
  /\ i \in DOMAIN tasks
  /\ tasks[i].co = co
  /\ tasks[i].pc = at
  /\ tasks[i].loop \in running

\* _connect: except (BleakError, TimeoutError)
connect_caught(o) == o \in {"BleakError", "TimeoutError"}

\* _disconnect: except BleakError
disconnect_caught(o) == o = "BleakError"

\* _connect: await self.client.connect(timeout=self.timeout)
co_connect(i) ==
  /\ Runnable(i, "_connect", "start")
  /\ \E o \in Outcomes :
       IF o = "ok"
       THEN /\ link' = TRUE
            /\ tasks' = [tasks EXCEPT ![i].pc = "start_notify"]
            /\ UNCHANGED is_connected
       ELSE IF connect_caught(o)
       THEN /\ is_connected' = FALSE
            /\ tasks' = Finish(i, "none", FALSE, <<>>)
            /\ UNCHANGED link
       ELSE /\ tasks' = Finish(i, o, FALSE, <<>>)
            /\ UNCHANGED <<is_connected, link>>
  /\ UNCHANGED <<loop, runner, lock, running, nloops, notification_queue,
                 notifying, devResp, pc, fut, ret, inPerform, arg, op, how,
                 calls, observed>>
  /\ UNCHANGED <<mtu, now, wrapper, codec, plugin, standalone>>

\* _connect: await self.client.start_notify(...); self.is_connected = True
co_start_notify(i) ==
  /\ Runnable(i, "_connect", "start_notify")
  /\ \E o \in Outcomes :
       IF o = "ok"
       THEN /\ link
            /\ notifying' = TRUE
            /\ is_connected' = TRUE
            /\ tasks' = Finish(i, "none", FALSE, <<>>)
       ELSE IF connect_caught(o)
       THEN /\ is_connected' = FALSE
            /\ tasks' = Finish(i, "none", FALSE, <<>>)
            /\ UNCHANGED notifying
       ELSE /\ tasks' = Finish(i, o, FALSE, <<>>)
            /\ UNCHANGED <<is_connected, notifying>>
  /\ UNCHANGED <<loop, runner, lock, running, nloops, notification_queue,
                 link, devResp, pc, fut, ret, inPerform, arg, op, how, calls,
          observed>>
  /\ UNCHANGED <<mtu, now, wrapper, codec, plugin, standalone>>

\* _disconnect: if self.client.is_connected: await stop_notify ...; the
\* finally clause clears is_connected on every way out.
co_stop_notify(i) ==
  /\ Runnable(i, "_disconnect", "start")
  /\ IF ~link
     THEN /\ is_connected' = FALSE
          /\ tasks' = Finish(i, "none", FALSE, <<>>)
          /\ UNCHANGED notifying
     ELSE \E o \in Outcomes :
       IF o = "ok"
       THEN /\ notifying' = FALSE
            /\ tasks' = [tasks EXCEPT ![i].pc = "disconnect"]
            /\ UNCHANGED is_connected
       ELSE /\ is_connected' = FALSE
            /\ tasks' = Finish(i, IF disconnect_caught(o) THEN "none" ELSE o,
                               FALSE, <<>>)
            /\ UNCHANGED notifying
  /\ UNCHANGED <<loop, runner, lock, running, nloops, notification_queue,
                 link, devResp, pc, fut, ret, inPerform, arg, op, how, calls,
          observed>>
  /\ UNCHANGED <<mtu, now, wrapper, codec, plugin, standalone>>

\* _disconnect: await self.client.disconnect(), then the finally clause.
co_disconnect(i) ==
  /\ Runnable(i, "_disconnect", "disconnect")
  /\ \E o \in Outcomes :
       /\ is_connected' = FALSE
       /\ IF o = "ok"
          THEN /\ link' = FALSE
               /\ notifying' = FALSE
               /\ devResp' = <<>>
               /\ tasks' = Finish(i, "none", FALSE, <<>>)
          ELSE /\ tasks' = Finish(i, IF disconnect_caught(o) THEN "none" ELSE o,
                                  FALSE, <<>>)
               /\ UNCHANGED <<link, notifying, devResp>>
  /\ UNCHANGED <<loop, runner, lock, running, nloops, notification_queue,
                 pc, fut, ret, inPerform, arg, op, how, calls,
          observed>>
  /\ UNCHANGED <<mtu, now, wrapper, codec, plugin, standalone>>

\* _perform: await self.client.write_gatt_char(WRITE_UUID, bytes(command))
co_write(i) ==
  /\ Runnable(i, "_perform", "start")
  /\ \E o \in Outcomes :
       IF o = "ok"
       THEN /\ link
            /\ \E r \in DeviceResponses[tasks[i].cmd] : devResp' = Append(devResp, r)
            /\ tasks' = [tasks EXCEPT ![i].pc = "wait", ![i].start = now,
                                      ![i].since = now]
       ELSE /\ tasks' = Finish(i, o, FALSE, <<>>)
            /\ UNCHANGED devResp
  /\ UNCHANGED <<is_connected, loop, runner, lock, running, nloops,
                 notification_queue, link, notifying, pc, fut, ret, inPerform,
                 arg, op, how, calls, observed>>
  /\ UNCHANGED <<mtu, now, wrapper, codec, plugin, standalone>>

\* _perform: data = await wait_for(queue.get(), timeout); response.extend(data);
\* at the size threshold validate, then parse; below it the loop calls
\* wait_for again, whose timeout counts from that call.
co_get(i) ==
  /\ Runnable(i, "_perform", "wait")
  /\ notification_queue # <<>>
  /\ notification_queue' = Tail(notification_queue)
  /\ LET response == tasks[i].response \o Head(notification_queue)
     IN  IF Len(response) >= response_size(tasks[i].cmd)
         THEN IF is_valid_response(response)
              THEN /\ tasks' = Finish(i, "none", TRUE, parse_response(response))
                   /\ observed' = [observed EXCEPT !.validated = response,
                                                   !.parsed = response]
              ELSE /\ tasks' = Finish(i, "none", FALSE, <<>>)
                   /\ UNCHANGED observed
         ELSE /\ tasks' = [tasks EXCEPT ![i].response = response,
                                        ![i].since = now]
              /\ UNCHANGED observed
  /\ UNCHANGED <<is_connected, loop, runner, lock, running, nloops, link,
                 notifying, devResp, pc, fut, ret, inPerform, arg, op,
                 how, calls>>
  /\ UNCHANGED <<mtu, now, wrapper, codec, plugin, standalone>>

\* A _perform that writes its command again when the wait times out.
co_get_retry(i) ==
  /\ Runnable(i, "_perform", "wait")
  /\ notification_queue = <<>>
  /\ tasks' = [tasks EXCEPT ![i].pc = "start"]
  /\ UNCHANGED <<is_connected, loop, runner, lock, running, nloops,
                 notification_queue, link, notifying, devResp, pc, fut, ret,
                 inPerform, arg, op, how, calls, observed>>
  /\ UNCHANGED <<mtu, now, wrapper, codec, plugin, standalone>>

\* _perform: except asyncio.TimeoutError: return None
co_get_timeout(i) ==
  /\ Runnable(i, "_perform", "wait")
  /\ notification_queue = <<>>
  /\ tasks' = Finish(i, "none", FALSE, <<>>)
  /\ UNCHANGED <<is_connected, loop, runner, lock, running, nloops,
                 notification_queue, link, notifying, devResp, pc, fut, ret,
                 inPerform, arg, op, how, calls, observed>>
  /\ UNCHANGED <<mtu, now, wrapper, codec, plugin, standalone>>

\* _notification_handler called with the next k bytes of the device's
\* response.  call_soon_threadsafe needs self.loop; without one the chunk is
\* lost.
Notify(k) ==
  /\ link /\ notifying /\ devResp # <<>>
  /\ LET bytes == Head(devResp)
     IN  /\ devResp' = IF k = Len(bytes) THEN Tail(devResp)
                       ELSE <<SubSeq(bytes, k + 1, Len(bytes))>> \o Tail(devResp)
         /\ notification_queue' =
              IF loop # 0 THEN Append(notification_queue, SubSeq(bytes, 1, k))
              ELSE notification_queue
  /\ UNCHANGED <<is_connected, loop, runner, lock, running, nloops, tasks,
                 link, notifying, pc, fut, ret, inPerform, arg, op, how, calls,
          observed>>
  /\ UNCHANGED <<mtu, now, wrapper, codec, plugin, standalone>>

\* _notification_handler: the device pushes the next chunk of its response,
\* as large as the connection's MTU lets it be.
notification_handler ==
  /\ devResp # <<>>
  /\ Notify(ChunkSize(Head(devResp)))

\* The BLE link drops (device out of range or switched off).
link_lost ==
  /\ link
  /\ link' = FALSE
  /\ notifying' = FALSE
  /\ devResp' = <<>>
  /\ UNCHANGED <<is_connected, loop, runner, lock, running, nloops, tasks,
                 notification_queue, pc, fut, ret, inPerform, arg, op, how,
                 calls, observed>>
  /\ UNCHANGED <<mtu, now, wrapper, codec, plugin, standalone>>

\* ---------------------------------------------- BluettiClient: the callers

\* A thread calls connect(), disconnect() or perform(command).
call(t) ==
  /\ program = "BluettiClient"
  /\ pc[t] = "idle"
  /\ calls < MaxCalls
  /\ calls' = calls + 1
  /\ \E o \in {"connect", "disconnect", "perform"} :
       /\ op' = [op EXCEPT ![t] = o]
       /\ pc' = [pc EXCEPT ![t] = "acquire"]
       /\ \E c \in Commands :
            arg' = [arg EXCEPT ![t] = IF o = "perform" THEN c ELSE NoCommand]
  /\ how' = [how EXCEPT ![t] = "-"]
  /\ ret' = [ret EXCEPT ![t] = "-"]
  /\ UNCHANGED <<is_connected, loop, runner, lock, running, nloops, tasks,
                 notification_queue, link, notifying, devResp, fut, inPerform,
                 observed>>
  /\ UNCHANGED <<mtu, now, wrapper, codec, plugin, standalone>>

\* with self.lock: a threading.Lock, which its holder cannot take again.  The
\* thread waits until the lock is free and then runs the body up to its first
\* blocking wait.
Acquire(t, o) == pc[t] = "acquire" /\ op[t] = o /\ lock = "free"

\* The call ends: the with block releases the lock and the caller gets `v`
\* ("raised": an exception reaches the caller).
Return(t, v, h) ==
  /\ pc' = [pc EXCEPT ![t] = "idle"]
  /\ ret' = [ret EXCEPT ![t] = v]
  /\ how' = [how EXCEPT ![t] = h]
  /\ fut' = [fut EXCEPT ![t] = 0]
  /\ lock' = "free"
  /\ inPerform' = [inPerform EXCEPT ![t] = FALSE]

\* asyncio.run_coroutine_threadsafe(coroutine, self.loop), lock held.
Submit(t, co, command) ==
  /\ tasks' = Append(tasks, Task(co, loop, command))
  /\ fut' = [fut EXCEPT ![t] = Len(tasks) + 1]
  /\ pc' = [pc EXCEPT ![t] = "wait"]
  /\ lock' = t

\* connect() without its early return.
connect_always_starts == FALSE

\* connect: if self.is_connected: return True
connect_already == is_connected

\* connect(), inside the lock.
connect_body(t) ==
  /\ Acquire(t, "connect")
  /\ IF connect_already
     THEN /\ Return(t, "True", "already")
          /\ UNCHANGED <<loop, runner, running, nloops, tasks, observed>>
     ELSE /\ nloops' = nloops + 1
          /\ loop' = nloops + 1
          /\ runner' = nloops + 1
          /\ running' = running \cup {nloops + 1}
          /\ tasks' = Append(tasks, Task("_connect", nloops + 1, NoCommand))
          /\ fut' = [fut EXCEPT ![t] = Len(tasks) + 1]
          /\ pc' = [pc EXCEPT ![t] = "wait"]
          /\ lock' = t
          /\ observed' = [observed EXCEPT !.connectFailed = FALSE]
          /\ UNCHANGED <<ret, how, inPerform>>
  /\ UNCHANGED <<is_connected, notification_queue, link, notifying, devResp,
                 arg, op, calls>>
  /\ UNCHANGED <<mtu, now, wrapper, codec, plugin, standalone>>

\* connect: future.result(self.timeout); return self.is_connected
connect_wait(t) ==
  /\ pc[t] = "wait" /\ op[t] = "connect"
  /\ \/ /\ tasks[fut[t]].pc = "done" /\ tasks[fut[t]].exc = "none"
        /\ Return(t, IF is_connected THEN "True" ELSE "False", "done")
        /\ observed' = [observed EXCEPT !.connectFailed = ~is_connected]
     \/ /\ tasks[fut[t]].pc = "done" /\ tasks[fut[t]].exc # "none"
        /\ Return(t, "raised", "raised")
        /\ observed' = [observed EXCEPT !.connectFailed = TRUE]
     \/ /\ tasks[fut[t]].pc # "done"
        /\ Return(t, "raised", "timeout")
        /\ observed' = [observed EXCEPT !.connectFailed = TRUE]
  /\ tasks' = Forget(fut[t])
  /\ UNCHANGED <<is_connected, loop, runner, running, nloops,
                 notification_queue, link, notifying, devResp, arg, op, calls>>
  /\ UNCHANGED <<mtu, now, wrapper, codec, plugin, standalone>>

\* disconnect() that looks at the loop only.
disconnect_without_loop == loop = 0

\* disconnect: if not self.is_connected or not self.loop: return
disconnect_nothing_to_do == ~is_connected \/ loop = 0

\* disconnect() returns; from perform()'s handler, perform() then returns None.
DisconnectReturn(t, v, h) ==
  IF inPerform[t]
  THEN Return(t, v, "unexpected")
  ELSE Return(t, v, h)

\* disconnect(), inside the lock.
disconnect_body(t) ==
  /\ Acquire(t, "disconnect")
  /\ IF disconnect_nothing_to_do
     THEN /\ DisconnectReturn(t, "None", "noop")
          /\ UNCHANGED tasks
     ELSE /\ Submit(t, "_disconnect", NoCommand)
          /\ UNCHANGED <<ret, how, inPerform>>
  /\ UNCHANGED <<is_connected, loop, runner, running, nloops,
                 notification_queue, link, notifying, devResp, arg, op, calls,
                 observed>>
  /\ UNCHANGED <<mtu, now, wrapper, codec, plugin, standalone>>

\* disconnect: future.result(self.timeout); loop.stop; runner.join();
\* self.loop = None; self.runner = None
disconnect_wait(t) ==
  /\ pc[t] = "wait" /\ op[t] = "disconnect"
  /\ \/ /\ tasks[fut[t]].pc = "done" /\ tasks[fut[t]].exc = "none"
        /\ running' = running \ {loop}
        /\ loop' = 0
        /\ runner' = 0
        /\ DisconnectReturn(t, "None", "done")
     \/ /\ tasks[fut[t]].pc = "done" /\ tasks[fut[t]].exc # "none"
        /\ DisconnectReturn(t, "raised", "raised")
        /\ UNCHANGED <<loop, runner, running>>
     \/ /\ tasks[fut[t]].pc # "done"
        /\ DisconnectReturn(t, "raised", "timeout")
        /\ UNCHANGED <<loop, runner, running>>
  /\ tasks' = Forget(fut[t])
  /\ UNCHANGED <<is_connected, nloops, notification_queue, link,
                 notifying, devResp, arg, op, calls, observed>>
  /\ UNCHANGED <<mtu, now, wrapper, codec, plugin, standalone>>

\* perform() that looks at the loop only.
perform_without_loop == loop = 0

\* perform: if not self.is_connected or not self.loop: return None
perform_not_connected == ~is_connected \/ loop = 0

\* perform(), inside the lock.
perform_body(t) ==
  /\ Acquire(t, "perform")
  /\ IF perform_not_connected
     THEN /\ Return(t, "None", "notconnected")
          /\ UNCHANGED tasks
     ELSE /\ Submit(t, "_perform", arg[t])
          /\ UNCHANGED <<ret, how, inPerform>>
  /\ UNCHANGED <<is_connected, loop, runner, running, nloops,
                 notification_queue, link, notifying, devResp, arg, op, calls,
                 observed>>
  /\ UNCHANGED <<mtu, now, wrapper, codec, plugin, standalone>>

\* perform() without its first except clause.
perform_nothing_caught(e) == FALSE

\* perform: except (TimeoutError, asyncio.TimeoutError)
perform_timeout_caught(e) == e = "TimeoutError"

\* perform: return future.result(timeout), and its two except clauses; the
\* second calls self.disconnect() with the lock still held.
perform_wait(t) ==
  /\ pc[t] = "wait" /\ op[t] = "perform"
  /\ \/ /\ tasks[fut[t]].pc = "done" /\ tasks[fut[t]].exc = "none"
        /\ Return(t, IF tasks[fut[t]].ok THEN "bytes" ELSE "None", "done")
        /\ UNCHANGED op
     \/ /\ tasks[fut[t]].pc = "done" /\ perform_timeout_caught(tasks[fut[t]].exc)
        /\ Return(t, "None", "timeouterror")
        /\ UNCHANGED op
     \/ /\ tasks[fut[t]].pc = "done" /\ tasks[fut[t]].exc # "none"
        /\ ~perform_timeout_caught(tasks[fut[t]].exc)
        /\ op' = [op EXCEPT ![t] = "disconnect"]
        /\ pc' = [pc EXCEPT ![t] = "acquire"]
        /\ inPerform' = [inPerform EXCEPT ![t] = TRUE]
        /\ how' = [how EXCEPT ![t] = "unexpected"]
        /\ fut' = [fut EXCEPT ![t] = 0]
        /\ UNCHANGED <<lock, ret>>
     \/ /\ tasks[fut[t]].pc # "done"
        /\ Return(t, "None", "timeout")
        /\ UNCHANGED op
  /\ tasks' = Forget(fut[t])
  /\ UNCHANGED <<is_connected, loop, runner, running, nloops,
                 notification_queue, link, notifying, devResp, arg, calls,
                 observed>>
  /\ UNCHANGED <<mtu, now, wrapper, codec, plugin, standalone>>

ThreadStep(t) ==
  \/ call(t)
  \/ connect_body(t)
  \/ connect_wait(t)
  \/ disconnect_body(t)
  \/ disconnect_wait(t)
  \/ perform_body(t)
  \/ perform_wait(t)

LoopStep(i) ==
  \/ co_connect(i)
  \/ co_start_notify(i)
  \/ co_stop_notify(i)
  \/ co_disconnect(i)
  \/ co_write(i)
  \/ co_get(i)
  \/ co_get_timeout(i)

\* Every call submits at most one coroutine.
TaskIds == 1..MaxCalls

Next ==
  \/ \E t \in Threads : ThreadStep(t)
  \/ \E i \in TaskIds : LoopStep(i)
  \/ notification_handler
  \/ link_lost

Spec == Init /\ [][Next]_vars

\* Caller threads are scheduled fairly and a running event loop runs every
\* coroutine that is ready.
FairSpec ==
  /\ Spec
  /\ \A t \in Threads : WF_vars(ThreadStep(t))
  /\ \A i \in TaskIds : WF_vars(LoopStep(i))

\* ----------------------------------------- StandaloneBluettiClient: data

\* StandaloneBluettiClient.polling_commands
polling_commands ==
  SubSeq(<<ReadHoldingRegisters(10, 40), ReadHoldingRegisters(70, 21),
           ReadHoldingRegisters(3001, 61)>>, 1, MaxMain)

\* StandaloneBluettiClient.pack_polling_commands
pack_polling_commands == <<ReadHoldingRegisters(91, 37)>>

\* The commands of one poll_all_data, in the order of its two loops: the main
\* reads, then for each slot the select write and the pack reads.
PollScript ==
  [j \in 1..Len(polling_commands) |->
     [kind |-> "main", slot |-> 0, cmd |-> polling_commands[j]]]
  \o [j \in 1..(2 * MaxPack) |->
        IF j % 2 = 1
        THEN [kind |-> "select", slot |-> (j + 1) \div 2,
              cmd |-> WriteSingleRegister(3006, (j + 1) \div 2)]
        ELSE [kind |-> "pack", slot |-> j \div 2,
              cmd |-> pack_polling_commands[1]]]

\* The device's holding registers: 77 percent charge at register 43, the
\* selected pack's charge at register 99, small values elsewhere.
DeviceRegister(address, pack) ==
  IF address = 43 THEN 77
  ELSE IF address = 99 THEN 50 + pack
  ELSE address % 3

\* The frame the device answers a command with: a read returns the registers,
\* a write echoes the command.
DeviceFrame(command, pack) ==
  IF command.fc = 3
  THEN LET data == [n \in 1..(2 * command.arg) |->
                      IF n % 2 = 1
                      THEN DeviceRegister(command.addr + (n - 1) \div 2, pack) \div 256
                      ELSE DeviceRegister(command.addr + (n - 2) \div 2, pack) % 256]
       IN  ModbusCommand(3, <<(2 * command.arg) % 256>> \o data)
  ELSE encode(command)

\* struct.unpack('>nH', payload): the registers of a payload.
Registers(payload) ==
  [n \in 1..(Len(payload) \div 2) |-> payload[2 * n - 1] * 256 + payload[2 * n]]

\* bool(value) stored as 0 or 1.
Bool(value) == IF value = 0 THEN 0 ELSE 1

\* _parse_data_segment, for the fields the model follows (values[i] of the
\* code is values[i + 1] here, and a field the code scales by 10 or 100 keeps
\* its register value); unpack raises on an odd length and the handler
\* returns the empty segment.
parse_data_segment(payload, starting_address) ==
  IF Len(payload) < 2 \/ Len(payload) % 2 = 1 THEN {}
  ELSE LET values == Registers(payload)
           n == Len(values)
       IN  IF starting_address = 10
           THEN IF n >= 40
                THEN {<<"total_battery_percent", values[34]>>,
                      <<"ac_output_on", Bool(values[39])>>,
                      <<"dc_output_on", Bool(values[40])>>}
                ELSE {}
           ELSE IF starting_address = 70
           THEN IF n >= 21 THEN {<<"ac_output_mode", values[1]>>} ELSE {}
           ELSE IF starting_address = 3001
           THEN (IF n >= 6 THEN {<<"ups_mode", values[1]>>,
                                 <<"pack_num_configured", values[6]>>}
                          ELSE {})
                \cup (IF n >= 11 THEN {<<"ac_output_on", Bool(values[7])>>,
                                       <<"dc_output_on", Bool(values[8])>>}
                                 ELSE {})
           ELSE IF starting_address = 91
           THEN IF n >= 9
                THEN {<<"pack_num_max_bms", values[1]>>,
                      <<"current_pack_total_voltage", values[2]>>,
                      <<"current_pack_voltage", values[8]>>,
                      <<"current_pack_battery_percent", values[9]>>}
                ELSE {}
           ELSE {}

Keys(map) == {e[1] : e \in map}

\* dict.update
Update(map, new) == {e \in map : e[1] \notin Keys(new)} \cup new

\* dict.update with the segment's own keys: what the merge of a pack segment
\* would be without the slot's names.
merge_pack_unrenamed(map, pack_data, slot) == Update(map, pack_data)

\* The names poll_all_data stores a pack's fields under (pack_<n>_...).
PackKey(slot, name) == "pack_" \o ToString(slot) \o "_" \o name

\* poll_all_data: the keys a pack segment is merged under.
merge_pack(map, pack_data, slot) ==
  LET renamed ==
        {<<PackKey(slot, "total_voltage"), e[2]>> :
           e \in {x \in pack_data : x[1] = "current_pack_total_voltage"}}
        \cup {<<PackKey(slot, "pack_voltage"), e[2]>> :
           e \in {x \in pack_data : x[1] = "current_pack_voltage"}}
        \cup {<<PackKey(slot, "battery_percent"), e[2]>> :
           e \in {x \in pack_data : x[1] = "current_pack_battery_percent"}}
        \cup {e \in pack_data : e[1] = "pack_num_max_bms"
                                /\ "pack_num_max_bms" \notin Keys(map)}
  IN  Update(map, renamed)


\* --------------------------------- StandaloneBluettiClient: the coroutines

\* What the Sync/Standalone actions never change.
fixed == <<facade, arg, mtu, program, now, wrapper, codec, plugin>>

\* StandaloneBluettiClient.__init__ followed by the BleakClient(...) of
\* connect(): the object as the rest of the program first sees it.
NewClient(lp) ==
  [loop |-> lp, client |-> TRUE, is_ready |-> FALSE, link |-> FALSE,
   notifying |-> FALSE, response_event |-> FALSE, response_data |-> <<>>,
   fields |-> {}, devResp |-> <<>>]

\* A coroutine of SyncBluettiClient on its loop: the object it is bound to
\* (0: read from self.client when it runs), its place in its script, the
\* arguments of send_command and its result.
SaTask(co, lp, o, register, value) ==
  [co |-> co, loop |-> lp, pc |-> "start", obj |-> o, k |-> 0,
   reg |-> register, val |-> value, res |-> "-", out |-> {}]

\* A send_command that went through the commands of a poll.
ScriptOfPoll(task) == PollScript

\* The commands a coroutine performs one after the other.
Script(task) ==
  IF task.co = "poll_all_data" THEN PollScript
  ELSE <<[kind |-> "send", slot |-> 0,
          cmd |-> WriteSingleRegister(task.reg, task.val)]>>

\* The coroutine returned; its result is kept only while a caller waits.
SaFinish(i, res, out) ==
  IF \E t \in Threads : fut[t] = i
  THEN [tasks EXCEPT ![i].pc = "done", ![i].k = 0, ![i].res = res,
                     ![i].out = out]
  ELSE [tasks EXCEPT ![i].pc = "done", ![i].k = 0, ![i].res = "-",
                     ![i].out = {}]

\* The caller stops waiting for its future.
SaForget(i) ==
  [tasks EXCEPT ![i] = IF @.pc = "done"
                       THEN [@ EXCEPT !.res = "-", !.out = {}] ELSE @]

\* What the coroutine returns when no further command is performed:
\* poll_all_data returns dict(self.fields), send_command returns False.
SaReturn(i, objects) ==
  IF tasks[i].co = "poll_all_data"
  THEN SaFinish(i, "dict", objects[tasks[i].obj].fields)
  ELSE SaFinish(i, "False", {})

\* perform_command: if not self.is_ready or not self.client: return None
perform_command_not_ready(object) == ~object.is_ready \/ ~object.client

\* The coroutine goes on to command k of its script, the objects being
\* `objects` by now.  perform_command either returns None at once, and so
\* does every later one because nothing is awaited in between, or clears the
\* event and the data and starts its write.
Enter(i, k, objects) ==
  LET o == tasks[i].obj
  IN  IF k > Len(Script(tasks[i])) \/ perform_command_not_ready(objects[o])
      THEN /\ tasks' = SaReturn(i, objects)
           /\ sa' = objects
      ELSE /\ tasks' = [tasks EXCEPT ![i].pc = "write", ![i].k = k]
           /\ sa' = [objects EXCEPT ![o].response_event = FALSE,
                                    ![o].response_data = <<>>]

\* _connect: self.client = StandaloneBluettiClient(...); connect() up to
\* await self.client.connect()
sa_connect_new(i) ==
  /\ Runnable(i, "connect", "start")
  /\ sa' = Append(sa, NewClient(tasks[i].loop))
  /\ sync' = [sync EXCEPT !.client = Len(sa) + 1]
  /\ tasks' = [tasks EXCEPT ![i].pc = "connecting", ![i].obj = Len(sa) + 1]
  /\ UNCHANGED <<loop, running, nloops, pc, fut, ret, op, how, calls,
                 pack_selected, got, observed>>
  /\ UNCHANGED fixed

\* connect: await self.client.connect(); except Exception: is_ready = False
sa_connect(i) ==
  /\ Runnable(i, "connect", "connecting")
  /\ LET o == tasks[i].obj
     IN  \E ok \in BOOLEAN :
           IF ok
           THEN /\ sa' = [sa EXCEPT ![o].link = TRUE]
                /\ tasks' = [tasks EXCEPT ![i].pc = "start_notify"]
           ELSE /\ sa' = [sa EXCEPT ![o].is_ready = FALSE]
                /\ tasks' = SaFinish(i, "False", {})
  /\ UNCHANGED <<loop, running, nloops, pc, fut, ret, op, how, calls, sync,
                 pack_selected, got, observed>>
  /\ UNCHANGED fixed

\* connect: await self.client.start_notify(...); self.is_ready = True
sa_start_notify(i) ==
  /\ Runnable(i, "connect", "start_notify")
  /\ LET o == tasks[i].obj
     IN  \E ok \in BOOLEAN :
           IF ok /\ sa[o].link
           THEN /\ sa' = [sa EXCEPT ![o].notifying = TRUE,
                                    ![o].is_ready = TRUE]
                /\ tasks' = [tasks EXCEPT ![i].pc = "read_name"]
           ELSE /\ sa' = [sa EXCEPT ![o].is_ready = FALSE]
                /\ tasks' = SaFinish(i, "False", {})
  /\ UNCHANGED <<loop, running, nloops, pc, fut, ret, op, how, calls, sync,
                 pack_selected, got, observed>>
  /\ UNCHANGED fixed

\* connect: await self.client.read_gatt_char(DEVICE_NAME_UUID), whose
\* failure is only logged; return True
sa_read_name(i) ==
  /\ Runnable(i, "connect", "read_name")
  /\ tasks' = SaFinish(i, "True", {})
  /\ UNCHANGED <<loop, running, nloops, pc, fut, ret, op, how, calls, sync,
                 sa, pack_selected, got, observed>>
  /\ UNCHANGED fixed

\* disconnect: if self.client and self.client.is_connected
disconnect_has_link(object) == object.client /\ object.link

\* _disconnect: await self.client.disconnect(), on the object self.client
\* names when the coroutine runs; without a link only is_ready = False.
sa_disconnect_begin(i) ==
  /\ Runnable(i, "disconnect", "start")
  /\ LET o == sync.client
     IN  IF disconnect_has_link(sa[o])
         THEN /\ tasks' = [tasks EXCEPT ![i].pc = "disconnecting",
                                        ![i].obj = o]
              /\ sa' = sa
         ELSE /\ sa' = [sa EXCEPT ![o].is_ready = FALSE]
              /\ tasks' = SaFinish(i, "None", {})
  /\ UNCHANGED <<loop, running, nloops, pc, fut, ret, op, how, calls, sync,
                 pack_selected, got, observed>>
  /\ UNCHANGED fixed

\* disconnect: the BleakClient disconnected, then is_ready = False; or it
\* raised, which is logged and leaves is_ready as it was.
sa_disconnect_end(i) ==
  /\ Runnable(i, "disconnect", "disconnecting")
  /\ LET o == tasks[i].obj
     IN  \E ok \in BOOLEAN :
           sa' = IF ok
                 THEN [sa EXCEPT ![o].link = FALSE, ![o].notifying = FALSE,
                                 ![o].devResp = <<>>, ![o].is_ready = FALSE]
                 ELSE sa
  /\ tasks' = SaFinish(i, "None", {})
  /\ UNCHANGED <<loop, running, nloops, pc, fut, ret, op, how, calls, sync,
                 pack_selected, got, observed>>
  /\ UNCHANGED fixed

\* poll_all_data: if not self.is_ready: return {}; self.fields.clear(), on to
\* the first command.  send_command: if not self.is_ready: return False.
sa_begin(i) ==
  /\ \/ Runnable(i, "poll_all_data", "start")
     \/ Runnable(i, "send_command", "start")
  /\ LET o == tasks[i].obj
     IN  IF ~sa[o].is_ready
         THEN /\ tasks' = IF tasks[i].co = "poll_all_data"
                          THEN SaFinish(i, "dict", {})
                          ELSE SaFinish(i, "False", {})
              /\ sa' = sa
         ELSE IF tasks[i].co = "poll_all_data"
              THEN Enter(i, 1, [sa EXCEPT ![o].fields = {}])
              ELSE Enter(i, 1, sa)
  /\ UNCHANGED <<loop, running, nloops, pc, fut, ret, op, how, calls, sync,
                 pack_selected, got, observed>>
  /\ UNCHANGED fixed

\* The register writes the callers pass to send_command().
SendInputs == {<<3007, 1>>}

\* Every command a StandaloneBluettiClient writes.
SaCommands ==
  {PollScript[j].cmd : j \in 1..Len(PollScript)}
  \cup {WriteSingleRegister(w[1], w[2]) : w \in SendInputs}

\* What the device may answer to each command while it shows pack `p`: the
\* frame, or the frame damaged in transit.
DeviceAnswers ==
  [command \in SaCommands, p \in 0..MaxPack |->
     {DeviceFrame(command, p), Damaged(DeviceFrame(command, p))}]

\* The coroutine at `at` inside perform_command.
Performing(i, at) ==
  \/ Runnable(i, "poll_all_data", at)
  \/ Runnable(i, "send_command", at)

\* poll_all_data / send_command: what follows a perform_command that
\* returned `response` (<<>>: None).  A response is parsed as it is.
Process(i, response) ==
  LET o == tasks[i].obj
      k == tasks[i].k
      entry == Script(tasks[i])[k]
      payload == parse_response(response)
      segment == parse_data_segment(payload, entry.cmd.addr)
      merged == IF response = <<>> \/ payload = <<>> THEN sa[o].fields
                ELSE IF entry.kind = "main"
                     THEN Update(sa[o].fields, segment)
                     ELSE merge_pack(sa[o].fields, segment, entry.slot)
  IN  IF entry.kind = "send"
      THEN /\ tasks' = SaFinish(i, IF response # <<>> THEN "True"
                                   ELSE "False", {})
           /\ sa' = sa
           /\ UNCHANGED observed
      ELSE IF entry.kind = "select"
      THEN /\ IF response # <<>>
              THEN /\ tasks' = [tasks EXCEPT ![i].pc = "sleep"]
                   /\ sa' = sa
              ELSE Enter(i, k + 2, sa)
           /\ UNCHANGED observed
      ELSE /\ Enter(i, k + 1, [sa EXCEPT ![o].fields = merged])
           /\ observed' = IF response # <<>>
                          THEN [observed EXCEPT !.parsed = response]
                          ELSE observed

\* perform_command: await self.client.write_gatt_char(WRITE_UUID, ...).  The
\* device takes the command and answers it or stays silent, or the write
\* raises and perform_command returns None.
sa_write(i) ==
  /\ Performing(i, "write")
  /\ LET o == tasks[i].obj
         command == Script(tasks[i])[tasks[i].k].cmd
     IN  \E ok \in BOOLEAN :
           IF ok /\ sa[o].link
           THEN /\ \/ \E frame \in DeviceAnswers[command, pack_selected] :
                        sa' = [sa EXCEPT ![o].devResp = Append(@, frame)]
                   \/ sa' = sa
                /\ pack_selected' = IF command.fc = 6 /\ command.addr = 3006
                                    THEN command.arg ELSE pack_selected
                /\ tasks' = [tasks EXCEPT ![i].pc = "wait"]
                /\ UNCHANGED observed
           ELSE /\ Process(i, <<>>)
                /\ UNCHANGED pack_selected
  /\ UNCHANGED <<loop, running, nloops, pc, fut, ret, op, how, calls, sync,
                 got>>
  /\ UNCHANGED fixed

\* perform_command: the wait is over (the event was set when it began, or a
\* notification woke it), return self._response_data as it is by now
sa_wait(i) ==
  /\ \/ Performing(i, "woken")
     \/ Performing(i, "wait") /\ sa[tasks[i].obj].response_event
  /\ Process(i, sa[tasks[i].obj].response_data)
  /\ UNCHANGED <<loop, running, nloops, pc, fut, ret, op, how, calls, sync,
                 pack_selected, got>>
  /\ UNCHANGED fixed

\* perform_command: except asyncio.TimeoutError: return None.  The 10 s pass
\* only when the device has nothing on its way to this client.
sa_wait_timeout(i) ==
  /\ Performing(i, "wait")
  /\ ~sa[tasks[i].obj].response_event
  /\ sa[tasks[i].obj].devResp = <<>>
  /\ Process(i, <<>>)
  /\ UNCHANGED <<loop, running, nloops, pc, fut, ret, op, how, calls, sync,
                 pack_selected, got>>
  /\ UNCHANGED fixed

\* poll_all_data: await asyncio.sleep(1.0) is over, on to the pack read
sa_sleep(i) ==
  /\ Performing(i, "sleep")
  /\ Enter(i, tasks[i].k + 1, sa)
  /\ UNCHANGED <<loop, running, nloops, pc, fut, ret, op, how, calls, sync,
                 pack_selected, got, observed>>
  /\ UNCHANGED fixed

\* The coroutines a set() of the client's event wakes: those inside
\* self._response_event.wait().
Woken(o) ==
  [i \in DOMAIN tasks |->
     IF tasks[i].co \in {"poll_all_data", "send_command"}
        /\ tasks[i].obj = o /\ tasks[i].pc = "wait"
     THEN [tasks[i] EXCEPT !.pc = "woken"] ELSE tasks[i]]

\* _notification_handler: self._response_data = data; the event is set.
sa_notification(o) ==
  /\ o \in DOMAIN sa
  /\ sa[o].link /\ sa[o].notifying /\ sa[o].devResp # <<>>
  /\ sa[o].loop \in running
  /\ LET bytes == Head(sa[o].devResp)
         n == ChunkSize(bytes)
     IN  sa' = [sa EXCEPT
                  ![o].devResp = IF n = Len(bytes) THEN Tail(@)
                                 ELSE <<SubSeq(bytes, n + 1, Len(bytes))>>
                                      \o Tail(@),
                  ![o].response_data = SubSeq(bytes, 1, n),
                  ![o].response_event = TRUE]
  /\ tasks' = Woken(o)
  /\ UNCHANGED <<loop, running, nloops, pc, fut, ret, op, how, calls,
                 sync, pack_selected, got, observed>>
  /\ UNCHANGED fixed

\* ------------------------------------------ SyncBluettiClient: the callers

\* A thread calls method `o` of the SyncBluettiClient.
SyncCall(t, o) ==
  /\ program = "SyncBluettiClient"
  /\ pc[t] = "idle"
  /\ calls < MaxSyncCalls
  /\ calls' = calls + 1
  /\ op' = [op EXCEPT ![t] = o]

\* The call returns `v`; `h` records the way it ended.
SyncReturn(t, v, h) ==
  /\ pc' = [pc EXCEPT ![t] = "idle"]
  /\ ret' = [ret EXCEPT ![t] = v]
  /\ how' = [how EXCEPT ![t] = h]
  /\ fut' = [fut EXCEPT ![t] = 0]

\* future = asyncio.run_coroutine_threadsafe(coroutine, self.loop)
SyncSubmit(t, task, at) ==
  /\ tasks' = Append(tasks, task)
  /\ fut' = [fut EXCEPT ![t] = Len(tasks) + 1]
  /\ pc' = [pc EXCEPT ![t] = at]
  /\ how' = [how EXCEPT ![t] = "-"]
  /\ ret' = [ret EXCEPT ![t] = "-"]

\* The guard of disconnect, poll_data and send_command:
\* if not self.loop or not self.client
sync_nothing_to_do == loop = 0 \/ sync.client = 0

\* start(): a new event loop on a new daemon thread
sync_start(t) ==
  /\ SyncCall(t, "start")
  /\ nloops' = nloops + 1
  /\ loop' = nloops + 1
  /\ running' = running \cup {nloops + 1}
  /\ SyncReturn(t, "None", "done")
  /\ UNCHANGED <<tasks, sync, sa, pack_selected, got, observed>>
  /\ UNCHANGED fixed

\* stop(), once its disconnect() is over: loop.stop and join
StopLoop == running' = running \ {loop}

\* stop(): if self.connected: self.disconnect(); then the loop is stopped
sync_stop(t) ==
  /\ SyncCall(t, "stop")
  /\ IF sync.connected /\ ~sync_nothing_to_do
     THEN /\ SyncSubmit(t, SaTask("disconnect", loop, 0, 0, 0), "future")
          /\ UNCHANGED running
     ELSE /\ StopLoop
          /\ SyncReturn(t, "None", "done")
          /\ UNCHANGED tasks
  /\ UNCHANGED <<loop, nloops, sync, sa, pack_selected, got, observed>>
  /\ UNCHANGED fixed

\* connect(): if not self.loop: return False; else _connect() is submitted
sync_connect(t) ==
  /\ SyncCall(t, "connect")
  /\ IF loop = 0
     THEN /\ SyncReturn(t, "False", "noloop")
          /\ UNCHANGED tasks
     ELSE SyncSubmit(t, SaTask("connect", loop, 0, 0, 0), "future")
  /\ UNCHANGED <<loop, running, nloops, sync, sa, pack_selected, got,
                 observed>>
  /\ UNCHANGED fixed

\* disconnect(): return at once without loop or client; else _disconnect()
sync_disconnect(t) ==
  /\ SyncCall(t, "disconnect")
  /\ IF sync_nothing_to_do
     THEN /\ SyncReturn(t, "None", "nothing")
          /\ UNCHANGED tasks
     ELSE SyncSubmit(t, SaTask("disconnect", loop, 0, 0, 0), "future")
  /\ UNCHANGED <<loop, running, nloops, sync, sa, pack_selected, got,
                 observed>>
  /\ UNCHANGED fixed

\* poll_data(): return {} without loop or client; else
\* self.client.poll_all_data() is submitted
sync_poll_data(t) ==
  /\ SyncCall(t, "poll_data")
  /\ IF sync_nothing_to_do
     THEN /\ SyncReturn(t, "dict", "nothing")
          /\ got' = [got EXCEPT ![t] = {}]
          /\ UNCHANGED tasks
     ELSE /\ SyncSubmit(t, SaTask("poll_all_data", loop, sync.client, 0, 0),
                        "future")
          /\ UNCHANGED got
  /\ UNCHANGED <<loop, running, nloops, sync, sa, pack_selected, observed>>
  /\ UNCHANGED fixed

\* send_command(register, value): return False without loop or client; else
\* self.client.send_command(register, value) is submitted
sync_send_command(t) ==
  /\ SyncCall(t, "send_command")
  /\ IF sync_nothing_to_do
     THEN /\ SyncReturn(t, "False", "nothing")
          /\ UNCHANGED tasks
     ELSE \E w \in SendInputs :
            SyncSubmit(t, SaTask("send_command", loop, sync.client,
                                 w[1], w[2]), "future")
  /\ UNCHANGED <<loop, running, nloops, sync, sa, pack_selected, got,
                 observed>>
  /\ UNCHANGED fixed

\* What a call returns when its wait raised: the except branch of each method.
SyncFailure(o) ==
  IF o \in {"connect", "send_command"} THEN "False"
  ELSE IF o = "poll_data" THEN "dict" ELSE "None"

\* future.result(timeout=...): the coroutine is done and the call returns its
\* result (connect and disconnect set self.connected), or the wait times out
\* and the coroutine goes on without its caller.  stop() then stops the loop.
sync_result(t) ==
  /\ program = "SyncBluettiClient"
  /\ pc[t] = "future"
  /\ LET i == fut[t]
         o == op[t]
     IN  \/ /\ tasks[i].pc = "done"
            /\ SyncReturn(t, tasks[i].res, "done")
            /\ got' = [got EXCEPT ![t] = IF o = "poll_data" THEN tasks[i].out
                                         ELSE @]
            /\ sync' = [sync EXCEPT
                          !.connected =
                             IF o = "connect" THEN tasks[i].res = "True"
                             ELSE IF o \in {"disconnect", "stop"} THEN FALSE
                             ELSE @]
            /\ tasks' = SaForget(i)
         \/ /\ tasks[i].pc # "done"
            /\ SyncReturn(t, SyncFailure(o), "timeout")
            /\ got' = [got EXCEPT ![t] = IF o = "poll_data" THEN {} ELSE @]
            /\ UNCHANGED <<sync, tasks>>
  /\ IF op[t] = "stop" THEN StopLoop ELSE UNCHANGED running
  /\ UNCHANGED <<loop, nloops, op, calls, sa, pack_selected, observed>>
  /\ UNCHANGED fixed

SyncThreadStep(t) ==
  \/ sync_start(t)
  \/ sync_stop(t)
  \/ sync_connect(t)
  \/ sync_disconnect(t)
  \/ sync_poll_data(t)
  \/ sync_send_command(t)
  \/ sync_result(t)

SyncLoopStep(i) ==
  \/ sa_connect_new(i)
  \/ sa_connect(i)
  \/ sa_start_notify(i)
  \/ sa_read_name(i)
  \/ sa_disconnect_begin(i)
  \/ sa_disconnect_end(i)
  \/ sa_begin(i)
  \/ sa_write(i)
  \/ sa_wait(i)
  \/ sa_wait_timeout(i)
  \/ sa_sleep(i)

\* Every call submits at most one coroutine; every connect creates a client.
SyncTaskIds == 1..MaxSyncCalls
ObjIds == 1..(MaxSyncCalls + 1)

\* A SyncBluettiClient as constructed, or after start() and a connect() that
\* succeeded.
InitSync ==
  /\ is_connected = FALSE
  /\ runner = 0
  /\ lock = "free"
  /\ tasks = <<>>
  /\ notification_queue = <<>>
  /\ link = FALSE
  /\ notifying = FALSE
  /\ devResp = <<>>
  /\ pc = [t \in Threads |-> "idle"]
  /\ fut = [t \in Threads |-> 0]
  /\ ret = [t \in Threads |-> "-"]
  /\ inPerform = [t \in Threads |-> FALSE]
  /\ arg = [t \in Threads |-> NoCommand]
  /\ op = [t \in Threads |-> "-"]
  /\ how = [t \in Threads |-> "-"]
  /\ calls = 0
  /\ mtu = BigMtu
  /\ pack_selected = 0
  /\ got = [t \in Threads |-> {}]
  /\ program = "SyncBluettiClient"
  /\ now = 0
  /\ wrapper = NoWrapper
  /\ codec = NoCodec
  /\ plugin = NoPlugin
  /\ observed = [validated |-> <<>>, parsed |-> <<>>,
                 connectFailed |-> FALSE]
  /\ \/ /\ loop = 0 /\ running = {} /\ nloops = 0
        /\ sync = [client |-> 0, connected |-> FALSE]
        /\ sa = <<>>
     \/ /\ loop = 1 /\ running = {1} /\ nloops = 1
        /\ sync = [client |-> 1, connected |-> TRUE]
        /\ sa = <<[NewClient(1) EXCEPT !.link = TRUE, !.notifying = TRUE,
                                       !.is_ready = TRUE]>>

NextSync ==
  \/ \E t \in Threads : SyncThreadStep(t)
  \/ \E i \in SyncTaskIds : SyncLoopStep(i)
  \/ \E o \in ObjIds : sa_notification(o)

SpecSync == InitSync /\ [][NextSync]_vars

\* ------------------------------------------------------------ both clients

\* A program that drives a BluettiClient, or one that drives a
\* SyncBluettiClient.
InitAll == Init \/ InitSync

NextAll == Next \/ NextSync

SpecAll == InitAll /\ [][NextAll]_vars

\* ------------------------------------------------------------------ claims

\* _perform coroutines that have written their command and still wait for
\* the response, on a loop that runs.
InFlight ==
  {i \in DOMAIN tasks : /\ tasks[i].co = "_perform"
                        /\ tasks[i].pc = "wait"
                        /\ tasks[i].loop \in running}

\* C1: a perform() call's command is written only after the background
\* transaction of every earlier perform() call has ended, so two transactions
\* are never in flight together.
C1_WritesSerialized == Cardinality(InFlight) <= 1

\* A perform_command of client o that has written its command and whose wait
\* for the response has not ended.
SaInFlight(o) ==
  {i \in DOMAIN tasks : /\ tasks[i].co \in {"poll_all_data", "send_command"}
                        /\ tasks[i].obj = o
                        /\ tasks[i].pc = "wait"
                        /\ tasks[i].loop \in running}

\* C2: at most one transaction is in flight on a StandaloneBluettiClient
\* session, whatever poll_data and send_command calls the threads make and
\* whichever of their waits timed out.
C2_OneTransaction ==
  \A o \in DOMAIN sa : Cardinality(SaInFlight(o)) <= 1

\* C3: a perform() whose background transaction failed with an unexpected
\* error calls disconnect() and then returns None with the session
\* Disconnected.
C3_UnexpectedErrorDisconnects ==
  \A t \in Threads :
    (how[t] = "unexpected" /\ pc[t] # "idle")
      ~> (pc[t] = "idle" /\ ret[t] = "None" /\ ~is_connected)

\* The steps of a coroutine of client o that call perform_command next: the
\* end of the settle delay, and the end of a wait.
CallsPerformCommand(i) ==
  /\ i \in DOMAIN tasks
  /\ tasks[i].co \in {"poll_all_data", "send_command"}
  /\ tasks[i].pc \in {"sleep", "woken"}
  /\ tasks[i].loop \in running
  /\ tasks'[i] # tasks[i]

\* C4: perform() on a session that is not connected returns None in one
\* step, submits nothing to the worker and writes nothing: BluettiClient
\* without is_connected or without a loop, and perform_command of a
\* StandaloneBluettiClient that is not ready.
C4_PerformNotConnected ==
  [][/\ \A t \in Threads :
          (Acquire(t, "perform") /\ (~is_connected \/ loop = 0)
             /\ pc'[t] # pc[t])
            => /\ pc'[t] = "idle"
               /\ ret'[t] = "None"
               /\ UNCHANGED <<tasks, devResp, notification_queue,
                              is_connected, loop>>
     /\ \A i \in SyncTaskIds :
          (CallsPerformCommand(i) /\ ~sa[tasks[i].obj].is_ready)
            => /\ tasks'[i].pc # "write"
               /\ sa'[tasks[i].obj].devResp = sa[tasks[i].obj].devResp
               /\ sa'[tasks[i].obj].is_ready = FALSE
               /\ UNCHANGED pack_selected]_vars

\* C4 witness: a perform() on a client that is not connected, although its
\* loop exists, has returned None through the early return.
C4_Witness ==
  \E t \in Threads :
    /\ op[t] = "perform" /\ pc[t] = "idle" /\ how[t] = "notconnected"
    /\ ret[t] = "None" /\ ~is_connected /\ loop # 0

\* The same case in a StandaloneBluettiClient: a poll past its settle delay
\* or its wait finds the client no longer ready.
C4_StandaloneCase ==
  \E i \in DOMAIN tasks :
    /\ tasks[i].co = "poll_all_data"
    /\ tasks[i].pc \in {"sleep", "woken"}
    /\ tasks[i].loop \in running
    /\ ~sa[tasks[i].obj].is_ready

\* C5: a frame is parsed only after is_valid_response accepted that frame.
C5_ParsedOnlyValidated ==
  observed.parsed # <<>> => observed.parsed = observed.validated

\* C6: a connect() whose connect/subscribe step failed or did not finish in
\* time returned False, and the session stays Disconnected until connect()
\* is called again.
C6_FailedConnectStaysDisconnected ==
  /\ observed.connectFailed => ~is_connected
  /\ \A t \in Threads :
       (op[t] = "connect" /\ pc[t] = "idle" /\ how[t] \in {"raised", "timeout"})
         => ret[t] = "False"

\* C7: connect() on a Connected client returns True in one step and leaves
\* the session state, the event loop, the worker thread and the submitted
\* coroutines as they were.
C7_ConnectWhenConnected ==
  [][\A t \in Threads :
       (Acquire(t, "connect") /\ is_connected /\ pc'[t] # pc[t])
         => /\ pc'[t] = "idle"
            /\ ret'[t] = "True"
            /\ UNCHANGED <<is_connected, loop, runner, running, nloops, tasks>>]_vars

\* C7 witness: a connect() on a Connected client has returned True through
\* the early return, with the one loop of the first connect().
C7_Witness ==
  \E t \in Threads :
    /\ op[t] = "connect" /\ pc[t] = "idle" /\ how[t] = "already"
    /\ ret[t] = "True" /\ is_connected /\ nloops = 1 /\ running = {1}

\* C8: at most one worker thread (event loop) of the client exists.
C8_AtMostOneWorker == Cardinality(running) <= 1

\* C9: when a disconnect() that found the session Connected returns, the
\* session is Disconnected and its worker is stopped and released.
C9_DisconnectStopsWorker ==
  [][\A t \in Threads :
       (pc[t] = "wait" /\ op[t] = "disconnect" /\ pc'[t] = "idle")
         => /\ ret'[t] = "None"
            /\ ~is_connected'
            /\ loop \notin running'
            /\ loop' = 0
            /\ runner' = 0]_vars

\* A step of the disconnect coroutine of the SyncBluettiClient from its start.
DisconnectRuns(i) ==
  /\ i \in DOMAIN tasks
  /\ tasks[i].co = "disconnect"
  /\ tasks[i].pc = "start"
  /\ tasks[i].loop \in running
  /\ tasks'[i] # tasks[i]

\* The SyncBluettiClient's client is disconnected: not ready, and no connect
\* of it is under way.
SaDisconnected ==
  /\ ~sa[sync.client].is_ready
  /\ \A j \in DOMAIN tasks :
       ~(tasks[j].co = "connect" /\ tasks[j].obj = sync.client
         /\ tasks[j].pc # "done")

\* What a disconnect() that is a no-op leaves alone, in a BluettiClient.
DisconnectNoOp(t) ==
  /\ pc'[t] = "idle"
  /\ ret'[t] = "None"
  /\ ~is_connected'
  /\ UNCHANGED <<tasks, loop, runner, running, link, notifying, devResp>>

Timeout == 2

\* The clock is followed up to this tick.
MaxTime == 4

\* The commands whose transactions are followed chunk by chunk.
TimedCommands == {ReadHoldingRegisters(10, 1), ReadHoldingRegisters(43, 2)}

\* _perform's wait_for is due: nothing is queued and its timeout has passed
\* since the call.
Due(i) ==
  /\ Runnable(i, "_perform", "wait")
  /\ notification_queue = <<>>
  /\ now - tasks[i].since >= Timeout

\* _perform's queue.get() has a chunk to return.
Ready(i) ==
  /\ Runnable(i, "_perform", "wait")
  /\ notification_queue # <<>>

\* One tick passes.  The loop is quick against the clock: a wait_for that is
\* due fires, and a queued chunk is taken, before the next tick.
Tick ==
  /\ now < MaxTime
  /\ \A i \in DOMAIN tasks : ~Due(i) /\ ~Ready(i)
  /\ now' = now + 1
  /\ UNCHANGED <<is_connected, loop, runner, lock, running, nloops, tasks,
                 notification_queue, link, notifying, devResp, pc, fut, ret,
                 inPerform, arg, op, how, calls, mtu, wrapper, codec,
                 plugin, observed>>
  /\ UNCHANGED standalone

\* _perform: except asyncio.TimeoutError, raised by wait_for when its
\* timeout has passed.
co_get_due(i) == Due(i) /\ co_get_timeout(i)

\* _notification_handler called with a chunk of any size: how the response
\* is cut depends on the device and on the connection.
notification_chunk ==
  /\ devResp # <<>>
  /\ \E k \in 1..Len(Head(devResp)) : Notify(k)

\* A response the device sends on with the first bytes of another frame.
Surplus(frame) == frame \o <<1, 3>>

\* connect() has succeeded, thread t1 is inside perform(command, Timeout),
\* _perform has written the command at tick 0 and the device has its answer
\* (sound, damaged in transit, or followed by further bytes) to send.
InitTimed ==
  /\ is_connected = TRUE
  /\ loop = 1
  /\ runner = 1
  /\ lock = "t1"
  /\ running = {1}
  /\ nloops = 1
  /\ \E command \in TimedCommands :
       /\ tasks = <<[Task("_perform", 1, command) EXCEPT !.pc = "wait"]>>
       /\ arg = [t \in Threads |-> IF t = "t1" THEN command ELSE NoCommand]
       /\ \E frame \in {DeviceFrame(command, 0),
                         Damaged(DeviceFrame(command, 0)),
                         Surplus(DeviceFrame(command, 0))} :
            devResp = <<frame>>
  /\ notification_queue = <<>>
  /\ link = TRUE
  /\ notifying = TRUE
  /\ pc = [t \in Threads |-> IF t = "t1" THEN "wait" ELSE "idle"]
  /\ fut = [t \in Threads |-> IF t = "t1" THEN 1 ELSE 0]
  /\ ret = [t \in Threads |-> "-"]
  /\ inPerform = [t \in Threads |-> FALSE]
  /\ op = [t \in Threads |-> IF t = "t1" THEN "perform" ELSE "-"]
  /\ how = [t \in Threads |-> "-"]
  /\ calls = 2
  /\ mtu = Mtu
  /\ sync = [client |-> 0, connected |-> FALSE]
  /\ sa = <<>>
  /\ pack_selected = 0
  /\ got = [t \in Threads |-> {}]
  /\ program = "_perform"
  /\ now = 0
  /\ wrapper = NoWrapper
  /\ codec = NoCodec
  /\ plugin = NoPlugin
  /\ observed = [validated |-> <<>>, parsed |-> <<>>,
                 connectFailed |-> FALSE]

\* The coroutine, the device and the clock; the caller stays in
\* future.result.
NextTimed ==
  \/ co_get(1)
  \/ co_get_due(1)
  \/ notification_chunk
  \/ Tick

SpecTimed == InitTimed /\ [][NextTimed]_vars

\* ------------------------------------------------------------------ C11

\* BluettiClient's session state: the flag and the worker.
SessionState == <<is_connected, loop, runner, running>>

\* Thread t waits in perform() for a transaction that ends in Timeout (of
\* _perform, of the write or of the caller's own wait) or InvalidResponse.
PerformFails(t) ==
  /\ pc[t] = "wait" /\ op[t] = "perform"
  /\ \/ tasks[fut[t]].pc # "done"
     \/ tasks[fut[t]].exc = "TimeoutError"
     \/ tasks[fut[t]].exc = "none" /\ ~tasks[fut[t]].ok

\* A step of connect() or disconnect(): of the caller, or of its coroutine.
SessionStep ==
  \/ \E t \in Threads :
       /\ op[t] \in {"connect", "disconnect"}
       /\ pc[t] # "idle"
       /\ pc'[t] # pc[t]
  \/ \E i \in DOMAIN tasks :
       /\ tasks[i].co \in {"_connect", "_disconnect"}
       /\ tasks'[i] # tasks[i]

\* C11: a perform() whose transaction ends in Timeout or InvalidResponse
\* returns None, releases the lock and leaves is_connected and the worker as
\* they were; is_connected and the worker change only in a step of connect()
\* or disconnect() (disconnect() called by perform()'s handler included).
C11_PerformFailureKeepsSession ==
  [][ /\ \A t \in Threads :
          (PerformFails(t) /\ pc'[t] # pc[t]) =>
            /\ pc'[t] = "idle"
            /\ ret'[t] = "None"
            /\ lock' = "free"
            /\ SessionState' = SessionState
      /\ (SessionState' # SessionState) => SessionStep ]_vars

\* A perform() returned None after Timeout or InvalidResponse and the
\* session is connected with its worker running.
C11_Witness ==
  \E t \in Threads :
    /\ pc[t] = "idle" /\ op[t] = "perform"
    /\ how[t] \in {"done", "timeouterror", "timeout"}
    /\ ret[t] = "None"
    /\ is_connected /\ loop # 0 /\ loop \in running

\* ------------------------------------------------------------------ C12

\* C12: no call of connect(), disconnect() or perform() ends with an
\* exception reaching its caller.
C12_NoExceptionEscapes == \A t \in Threads : ret[t] # "raised"

\* ------------------------------------------------------------------ C13

RECURSIVE Flatten(_)
\* The chunks of a queue, end to end.
Flatten(queue) ==
  IF queue = <<>> THEN <<>> ELSE Head(queue) \o Flatten(Tail(queue))

\* The response of transaction i as the device sent or will send it: what
\* _perform has accumulated, what is queued, what the device still holds.
WholeResponse(i) ==
  tasks[i].response \o Flatten(notification_queue)
    \o (IF devResp = <<>> THEN <<>> ELSE Head(devResp))

\* _perform takes a chunk and returns.
PerformReturns(i) ==
  /\ i \in DOMAIN tasks
  /\ tasks[i].co = "_perform"
  /\ tasks[i].pc = "wait"
  /\ tasks'[i].pc = "done"
  /\ notification_queue' # notification_queue

\* C13: however a valid response of exactly the expected size is cut into
\* chunks, a _perform that gets every chunk in time returns when the last
\* chunk is in, and returns parse_response of the whole response.
C13_SplitInvariant ==
  [][ \A i \in TaskIds :
        (/\ PerformReturns(i)
         /\ is_valid_response(WholeResponse(i))
         /\ Len(WholeResponse(i)) = Len(DeviceFrame(tasks[i].cmd, 0)))
        => /\ tasks'[i].ok
           /\ tasks'[i].res = parse_response(WholeResponse(i))
           /\ notification_queue' = <<>> /\ devResp = <<>> ]_vars

\* _perform has returned the two registers of a response that came in
\* chunks.
C13_Witness ==
  /\ program = "_perform"
  /\ tasks[1].pc = "done" /\ tasks[1].ok
  /\ tasks[1].cmd = ReadHoldingRegisters(43, 2)
  /\ tasks[1].res = <<0, 77, 0, 2>>
  /\ observed.validated = DeviceFrame(tasks[1].cmd, 0)

\* ------------------------------------------------------------------ C14

\* _perform ends with Timeout: wait_for raised, no chunk was taken.
PerformTimesOut(i) ==
  /\ i \in DOMAIN tasks
  /\ tasks[i].co = "_perform"
  /\ tasks[i].pc = "wait"
  /\ tasks'[i].pc = "done"
  /\ notification_queue' = notification_queue

\* C14: a _perform that ends with Timeout ends when the timeout has passed
\* since the transaction began, whatever chunks arrived in between.
C14_TimeoutAtDeadline ==
  [][ \A i \in TaskIds :
        PerformTimesOut(i) => now = tasks[i].start + Timeout ]_vars

\* ------------------------------------------------------------------ C15

\* A started and connected SyncBluettiClient with one call still to come,
\* on a connection whose notifications carry at most Mtu bytes.
InitChunks ==
  /\ is_connected = FALSE
  /\ runner = 0
  /\ lock = "free"
  /\ tasks = <<>>
  /\ notification_queue = <<>>
  /\ link = FALSE
  /\ notifying = FALSE
  /\ devResp = <<>>
  /\ pc = [t \in Threads |-> "idle"]
  /\ fut = [t \in Threads |-> 0]
  /\ ret = [t \in Threads |-> "-"]
  /\ inPerform = [t \in Threads |-> FALSE]
  /\ arg = [t \in Threads |-> NoCommand]
  /\ op = [t \in Threads |-> "-"]
  /\ how = [t \in Threads |-> "-"]
  /\ calls = MaxSyncCalls - 1
  /\ mtu = Mtu
  /\ pack_selected = 0
  /\ got = [t \in Threads |-> {}]
  /\ program = "SyncBluettiClient"
  /\ now = 0
  /\ wrapper = NoWrapper
  /\ codec = NoCodec
  /\ plugin = NoPlugin
  /\ observed = [validated |-> <<>>, parsed |-> <<>>,
                 connectFailed |-> FALSE]
  /\ loop = 1 /\ running = {1} /\ nloops = 1
  /\ sync = [client |-> 1, connected |-> TRUE]
  /\ sa = <<[NewClient(1) EXCEPT !.link = TRUE, !.notifying = TRUE,
                                 !.is_ready = TRUE]>>

SpecChunks == InitChunks /\ [][NextSync]_vars

\* The device hands the next chunk of a response to BluettiClient's handler.
FacadeChunkArrives ==
  /\ link /\ link' /\ devResp # <<>>
  /\ \/ devResp' = Tail(devResp)
     \/ /\ Len(devResp') = Len(devResp)
        /\ Tail(devResp') = Tail(devResp)
        /\ Len(Head(devResp')) < Len(Head(devResp))

\* BluettiClient: the chunk is queued behind the chunks not yet taken.
FacadeChunkQueued ==
  /\ Len(notification_queue') = Len(notification_queue) + 1
  /\ SubSeq(notification_queue', 1, Len(notification_queue))
       = notification_queue
  /\ Head(devResp) =
       notification_queue'[Len(notification_queue')]
         \o (IF Len(devResp') < Len(devResp) THEN <<>> ELSE Head(devResp'))

\* The handler of StandaloneBluettiClient o is called with a chunk.
SaChunkArrives(o) ==
  /\ o \in DOMAIN sa
  /\ sa[o].devResp # <<>>
  /\ sa'[o].devResp # sa[o].devResp
  /\ sa'[o].response_event

\* A perform_command of client o was woken by a chunk it has not read yet.
SaChunkUnread(o) ==
  \E i \in DOMAIN tasks :
    /\ tasks[i].co \in {"poll_all_data", "send_command"}
    /\ tasks[i].obj = o
    /\ tasks[i].pc = "woken"

\* C15: a chunk that arrives while a transaction waits is kept for it as a
\* chunk of its own: BluettiClient queues it behind the chunks not yet
\* taken, and StandaloneBluettiClient does not replace a chunk the woken
\* perform_command has not read yet.
C15_ChunksDelivered ==
  [][ /\ (FacadeChunkArrives /\ InFlight # {}) => FacadeChunkQueued
      /\ \A o \in ObjIds :
           (SaChunkArrives(o) /\ SaChunkUnread(o)) =>
             sa'[o].response_data = sa[o].response_data ]_vars

\* ------------------------------------------------------------------ C16

\* The StandaloneBluettiClient objects whose BLE connection is open.
OpenLinks == {o \in DOMAIN sa : sa[o].link}

\* C16: of the BLE connections the session has created at most one is open,
\* and an open one is the connection of the client the session holds.
C16_OneConnection ==
  /\ Cardinality(OpenLinks) <= 1
  /\ \A o \in OpenLinks : sync.client = o

\* ------------------------------------------------------------------ C17

\* A BLE operation of the BleakClient takes effect: the connection opens,
\* the subscription changes on an open connection, a command is written, or
\* the client closes the connection (the link dropping by itself leaves
\* the coroutines where they are).
BleOperation ==
  \/ ~link /\ link'
  \/ link' /\ notifying' # notifying
  \/ Len(devResp') > Len(devResp)
  \/ link /\ ~link' /\ tasks' # tasks

\* A coroutine of BluettiClient made a step on a loop its worker runs.
WorkerStep ==
  \E i \in DOMAIN tasks :
    /\ tasks[i].co \in {"_connect", "_disconnect", "_perform"}
    /\ tasks'[i] # tasks[i]
    /\ tasks[i].loop \in running

\* C17: every BLE operation of a BluettiClient is a step of a coroutine on
\* the running worker loop, and no step of a caller thread is one: the
\* caller submits, waits and returns.
C17_BleOnWorker ==
  [][ BleOperation => (WorkerStep /\ pc' = pc) ]_vars

\* The worker has connected, subscribed and written a command while the
\* caller of perform() is blocked on its future.
C17_Witness ==
  /\ link /\ notifying /\ devResp # <<>>
  /\ loop \in running
  /\ \E t \in Threads :
       /\ pc[t] = "wait" /\ op[t] = "perform"
       /\ tasks[fut[t]].pc = "wait"

\* ------------------------------------------------------------------ C18

\* Coroutine i is a poll_all_data at entry `kind` of its script.
PollAt(i, kind) ==
  /\ i \in DOMAIN tasks
  /\ tasks[i].co = "poll_all_data"
  /\ tasks[i].k \in 1..Len(PollScript)
  /\ PollScript[tasks[i].k].kind = kind

\* poll_all_data i has written a pack select and not yet its pack read.
SelectToRead(i) ==
  \/ PollAt(i, "select") /\ tasks[i].pc \in {"wait", "woken", "sleep"}
  \/ PollAt(i, "pack") /\ tasks[i].pc = "write"

\* Coroutine j writes a command to the device of client o.
Writes(j, o) ==
  /\ j \in DOMAIN tasks
  /\ tasks[j].co \in {"poll_all_data", "send_command"}
  /\ tasks[j].obj = o
  /\ tasks[j].pc = "write"
  /\ tasks'[j].pc = "wait"

\* C18: a poll cycle goes on to the pack read of slot n only from the
\* settle delay that follows an answered select of slot n, and between its
\* select write and its pack read no other command is written to the
\* device.
C18_SelectThenRead ==
  [][ \A i \in SyncTaskIds :
        /\ (PollAt(i, "select") /\ tasks'[i].pc = "write"
              /\ tasks'[i].k = tasks[i].k + 1)
             => tasks[i].pc = "sleep"
        /\ SelectToRead(i) =>
             \A j \in SyncTaskIds \ {i} : ~Writes(j, tasks[i].obj) ]_vars

\* ---------------------------------------------- DomoticzBluettiWrapper

\* Calls of the wrapper's methods the threads make in all.
MaxWrapperCalls == 2

\* How many of the device's main polling commands, and how many of the six
\* pack slots, a wrapper poll is followed through.
MaxWrapperMain == 2
MaxWrapperPack == 2

\* self.device.polling_commands, then for each pack slot the select write
\* and self.device.pack_polling_commands: the commands of _async_poll_data
\* in the order of its loops.
WrapperScript ==
  [j \in 1..MaxWrapperMain |->
     [kind |-> "main", slot |-> 0,
      cmd |-> <<ReadHoldingRegisters(10, 40), ReadHoldingRegisters(70, 21),
                ReadHoldingRegisters(3001, 61)>>[j]]]
  \o [j \in 1..(2 * MaxWrapperPack) |->
        IF j % 2 = 1
        THEN [kind |-> "select", slot |-> (j + 1) \div 2,
              cmd |-> WriteSingleRegister(3006, (j + 1) \div 2)]
        ELSE [kind |-> "pack", slot |-> j \div 2,
              cmd |-> ReadHoldingRegisters(91, 37)]]

\* _parse_ac500_data_segment: the same decoding as the standalone client's
\* _parse_data_segment for the fields followed here.
parse_ac500_data_segment(payload, starting_address) ==
  parse_data_segment(payload, starting_address)

\* The value stored under a key of a field map.
Value(map, key) == (CHOOSE e \in map : e[1] = key)[2]

\* _async_poll_data: the keys a pack segment is stored under;
\* pack_num_max_bms only while the map has none or has 0.
wrapper_merge_pack(map, pack_data, slot) ==
  LET renamed ==
        {<<PackKey(slot, "total_voltage"), e[2]>> :
           e \in {x \in pack_data : x[1] = "current_pack_total_voltage"}}
        \cup {<<PackKey(slot, "pack_voltage"), e[2]>> :
           e \in {x \in pack_data : x[1] = "current_pack_voltage"}}
        \cup {<<PackKey(slot, "battery_percent"), e[2]>> :
           e \in {x \in pack_data : x[1] = "current_pack_battery_percent"}}
        \cup {e \in pack_data :
                /\ e[1] = "pack_num_max_bms"
                /\ \/ "pack_num_max_bms" \notin Keys(map)
                   \/ Value(map, "pack_num_max_bms") = 0}
  IN  Update(map, renamed)

\* BluetoothClient(mac) and create_task(self.ble_client.run()): a client of
\* the bluetti_mqtt library, not ready yet, its task running.
NewBluetoothClient == [is_ready |-> FALSE, task |-> "running"]

\* What the wrapper's actions never change.
apart == <<is_connected, loop, runner, lock, running, nloops, tasks,
           notification_queue, link, notifying, devResp, fut, inPerform, arg,
           mtu, sync, sa, program, now, codec, plugin, observed>>

\* ---- the BluetoothClient objects (library code: the environment)

\* run() has connected and subscribed: the client is ready for commands.
ble_ready(c) ==
  /\ c \in DOMAIN wrapper.clients
  /\ wrapper.clients[c].task = "running"
  /\ ~wrapper.clients[c].is_ready
  /\ wrapper' = [wrapper EXCEPT !.clients[c].is_ready = TRUE]
  /\ UNCHANGED <<pc, ret, op, how, calls, got, pack_selected>>
  /\ UNCHANGED apart

\* The BLE link drops: the client is not ready until run() has reconnected.
ble_lost(c) ==
  /\ c \in DOMAIN wrapper.clients
  /\ wrapper.clients[c].is_ready
  /\ wrapper' = [wrapper EXCEPT !.clients[c].is_ready = FALSE]
  /\ UNCHANGED <<pc, ret, op, how, calls, got, pack_selected>>
  /\ UNCHANGED apart

\* run() ends with an exception.
ble_failed(c) ==
  /\ c \in DOMAIN wrapper.clients
  /\ wrapper.clients[c].task = "running"
  /\ wrapper' = [wrapper EXCEPT !.clients[c].is_ready = FALSE,
                                !.clients[c].task = "failed"]
  /\ UNCHANGED <<pc, ret, op, how, calls, got, pack_selected>>
  /\ UNCHANGED apart

\* ---- the worker: _async_main and the coroutines it awaits

\* The worker is at `at`.
Worker(at) ==
  /\ program = "DomoticzBluettiWrapper"
  /\ wrapper.pc = at

\* self.result_queue.put((action, result)) and back to the top of the loop
\* of _async_main; `w` is the wrapper as the coroutine leaves it.
Post(w, action, result, out) ==
  wrapper' = [w EXCEPT
                !.result_queue =
                   Append(@, [action |-> action, res |-> result,
                              out |-> out]),
                !.pc = "idle", !.k = 0]

\* _async_main taking the newest command instead of the oldest.
async_main_newest ==
  /\ Worker("idle")
  /\ wrapper.is_running
  /\ wrapper.command_queue # <<>>
  /\ LET n == Len(wrapper.command_queue)
         command == wrapper.command_queue[n]
     IN  wrapper' = [wrapper EXCEPT !.command_queue = SubSeq(@, 1, n - 1),
                                    !.pc = command.action,
                                    !.register = command.register,
                                    !.value = command.value]
  /\ UNCHANGED <<pc, ret, op, how, calls, got, pack_selected>>
  /\ UNCHANGED apart

\* _async_main: command = self.command_queue.get_nowait(), and the branch
\* its action selects
async_main ==
  /\ Worker("idle")
  /\ wrapper.is_running
  /\ wrapper.command_queue # <<>>
  /\ LET command == Head(wrapper.command_queue)
     IN  wrapper' = [wrapper EXCEPT !.command_queue = Tail(@),
                                    !.pc = command.action,
                                    !.register = command.register,
                                    !.value = command.value]
  /\ UNCHANGED <<pc, ret, op, how, calls, got, pack_selected>>
  /\ UNCHANGED apart

\* _async_main: while self.is_running is over; _run_event_loop closes the
\* loop and the thread ends
async_main_exit ==
  /\ Worker("idle")
  /\ ~wrapper.is_running
  /\ wrapper' = [wrapper EXCEPT !.pc = "exited"]
  /\ UNCHANGED <<pc, ret, op, how, calls, got, pack_selected>>
  /\ UNCHANGED apart

\* _async_connect: a new device, a new BluetoothClient and a new task that
\* runs it
async_connect ==
  /\ Worker("connect")
  /\ wrapper' = [wrapper EXCEPT
                   !.clients = Append(@, NewBluetoothClient),
                   !.ble_client = Len(wrapper.clients) + 1,
                   !.fields = {},
                   !.pc = "connecting"]
  /\ UNCHANGED <<pc, ret, op, how, calls, got, pack_selected>>
  /\ UNCHANGED apart

\* _async_connect: the loop that waits for is_ready is over: the client is
\* ready, or 30 s have passed, or the client's task has ended
async_connect_wait ==
  /\ Worker("connecting")
  /\ LET client == wrapper.clients[wrapper.ble_client]
     IN  \/ /\ client.is_ready
            /\ Post([wrapper EXCEPT !.is_connected = TRUE],
                    "connect", "True", {})
         \/ /\ ~client.is_ready
            /\ Post([wrapper EXCEPT !.is_connected = FALSE],
                    "connect", "False", {})
  /\ UNCHANGED <<pc, ret, op, how, calls, got, pack_selected>>
  /\ UNCHANGED apart

\* _async_disconnect: cancel self.client_task if it has not ended, forget
\* the client and its task
async_disconnect ==
  /\ Worker("disconnect")
  /\ LET b == wrapper.ble_client
         w == IF b # 0 /\ wrapper.clients[b].task = "running"
              THEN [wrapper EXCEPT !.clients[b].task = "cancelled",
                                   !.clients[b].is_ready = FALSE]
              ELSE wrapper
     IN  Post([w EXCEPT !.ble_client = 0, !.is_connected = FALSE],
              "disconnect", "True", {})
  /\ UNCHANGED <<pc, ret, op, how, calls, got, pack_selected>>
  /\ UNCHANGED apart

\* The guard of _async_poll_data and _async_send_command:
\* if not self.is_connected or not self.ble_client or not ...is_ready
wrapper_not_connected ==
  \/ ~wrapper.is_connected
  \/ wrapper.ble_client = 0
  \/ ~wrapper.clients[wrapper.ble_client].is_ready

\* _async_poll_data goes on to entry k of its script with the fields
\* `fields`, or returns dict(self.device.fields) after the last one.
PollOn(k, fields) ==
  IF k > Len(WrapperScript)
  THEN Post([wrapper EXCEPT !.fields = fields], "poll", "dict", fields)
  ELSE wrapper' = [wrapper EXCEPT !.fields = fields, !.pc = "polling",
                                  !.k = k]

\* _async_poll_data: return {} when not connected; else clear the fields
\* and start with the first command
async_poll_data ==
  /\ Worker("poll")
  /\ IF wrapper_not_connected
     THEN Post(wrapper, "poll", "dict", {})
     ELSE PollOn(1, {})
  /\ UNCHANGED <<pc, ret, op, how, calls, got, pack_selected>>
  /\ UNCHANGED apart

\* The except clauses of _async_poll_data's two loops: the exception is
\* logged and the loop goes on (a slot's pack read is skipped with its
\* select), unless the client is not ready: then ConnectionError is raised
\* and the outermost handler returns {}.
poll_exception(entry) ==
  IF ~wrapper.clients[wrapper.ble_client].is_ready
  THEN Post(wrapper, "poll", "dict", {})
  ELSE IF entry.kind = "select"
       THEN PollOn(wrapper.k + 2, wrapper.fields)
       ELSE PollOn(wrapper.k + 1, wrapper.fields)

\* _async_poll_data: one command: await self.ble_client.perform(command),
\* await wait_for(future), parse_response, the segment parser, the update of
\* the fields.  A ready client gets the device's response; the wait may also
\* raise (timeout, bad frame, lost connection), and does when the client is
\* not ready.
async_poll_command ==
  /\ Worker("polling")
  /\ LET entry == WrapperScript[wrapper.k]
         frame == DeviceFrame(entry.cmd,
                              IF entry.kind = "select" THEN entry.slot
                              ELSE pack_selected)
         segment == parse_ac500_data_segment(parse_response(frame),
                                             entry.cmd.addr)
     IN  \/ /\ wrapper.clients[wrapper.ble_client].is_ready
            /\ IF entry.kind = "select"
               THEN /\ wrapper' = [wrapper EXCEPT !.pc = "settle"]
                    /\ pack_selected' = entry.slot
               ELSE /\ PollOn(wrapper.k + 1,
                              IF entry.kind = "main"
                              THEN Update(wrapper.fields, segment)
                              ELSE wrapper_merge_pack(wrapper.fields, segment,
                                                      entry.slot))
                    /\ UNCHANGED pack_selected
         \/ /\ poll_exception(entry)
            /\ UNCHANGED pack_selected
  /\ UNCHANGED <<pc, ret, op, how, calls, got>>
  /\ UNCHANGED apart

\* _async_poll_data: await asyncio.sleep(1.0) after a select, then the
\* slot's pack read
async_poll_settle ==
  /\ Worker("settle")
  /\ PollOn(wrapper.k + 1, wrapper.fields)
  /\ UNCHANGED <<pc, ret, op, how, calls, got, pack_selected>>
  /\ UNCHANGED apart

\* _async_send_command: False when not connected; else the write is
\* performed and awaited: True, or False when that raises
async_send_command ==
  /\ Worker("command")
  /\ IF wrapper_not_connected
     THEN /\ Post(wrapper, "command", "False", {})
          /\ UNCHANGED pack_selected
     ELSE \/ /\ Post(wrapper, "command", "True", {})
             /\ pack_selected' = IF wrapper.register = 3006
                                 THEN wrapper.value ELSE pack_selected
          \/ /\ Post(wrapper, "command", "False", {})
             /\ UNCHANGED pack_selected
  /\ UNCHANGED <<pc, ret, op, how, calls, got>>
  /\ UNCHANGED apart

\* ---- the callers: the wrapper's synchronous methods

\* A thread calls method `o` of the wrapper.
WrapperCall(t, o) ==
  /\ program = "DomoticzBluettiWrapper"
  /\ pc[t] = "idle"
  /\ calls < MaxWrapperCalls
  /\ calls' = calls + 1
  /\ op' = [op EXCEPT ![t] = o]

\* The call returns `v` (and the map `out` from poll_data).
WrapperReturn(t, v, h, out) ==
  /\ pc' = [pc EXCEPT ![t] = "idle"]
  /\ ret' = [ret EXCEPT ![t] = v]
  /\ how' = [how EXCEPT ![t] = h]
  /\ got' = [got EXCEPT ![t] = out]

\* The action each method puts on the command queue and looks for in the
\* result queue.
ActionOf(o) ==
  IF o = "poll_data" THEN "poll"
  ELSE IF o = "send_command" THEN "command" ELSE o

\* What a method returns when the wrapper is not running.
NotRunningResult(o) ==
  IF o = "disconnect" THEN "True"
  ELSE IF o = "poll_data" THEN "dict" ELSE "False"

\* What a method returns when its wait for a result runs out.
TimeoutResult(o) == IF o = "poll_data" THEN "dict" ELSE "False"

\* connect / disconnect / poll_data / send_command: return at once when not
\* running; else self.command_queue.put({"action": ...}) and wait
Request(t, o, register, value) ==
  /\ IF ~wrapper.is_running
     THEN /\ WrapperReturn(t, NotRunningResult(o), "notrunning",
                           IF o = "poll_data" THEN {} ELSE got[t])
          /\ UNCHANGED wrapper
     ELSE /\ wrapper' = [wrapper EXCEPT
                           !.command_queue =
                              Append(@, [action |-> ActionOf(o),
                                         register |-> register,
                                         value |-> value])]
          /\ pc' = [pc EXCEPT ![t] = "result"]
          /\ how' = [how EXCEPT ![t] = "-"]
          /\ ret' = [ret EXCEPT ![t] = "-"]
          /\ UNCHANGED got
  /\ UNCHANGED pack_selected
  /\ UNCHANGED apart

\* connect(timeout)
wrapper_connect(t) ==
  /\ WrapperCall(t, "connect")
  /\ Request(t, "connect", 0, 0)

\* disconnect()
wrapper_disconnect(t) ==
  /\ WrapperCall(t, "disconnect")
  /\ Request(t, "disconnect", 0, 0)

\* poll_data(timeout)
wrapper_poll_data(t) ==
  /\ WrapperCall(t, "poll_data")
  /\ Request(t, "poll_data", 0, 0)

\* send_command(register, value, timeout)
wrapper_send_command(t) ==
  /\ WrapperCall(t, "send_command")
  /\ \E w \in SendInputs : Request(t, "send_command", w[1], w[2])

\* The loop each method waits in: result_queue.get_nowait() takes the next
\* result, which is returned if its action is the method's and dropped if
\* not; when the time is up the method returns its failure value.
wrapper_result(t) ==
  /\ program = "DomoticzBluettiWrapper"
  /\ pc[t] = "result"
  /\ \/ /\ wrapper.result_queue # <<>>
        /\ wrapper' = [wrapper EXCEPT !.result_queue = Tail(@)]
        /\ LET result == Head(wrapper.result_queue)
           IN  IF result.action = ActionOf(op[t])
               THEN WrapperReturn(t, result.res, "done",
                                  IF op[t] = "poll_data" THEN result.out
                                  ELSE got[t])
               ELSE UNCHANGED <<pc, ret, how, got>>
     \/ /\ WrapperReturn(t, TimeoutResult(op[t]), "timeout",
                         IF op[t] = "poll_data" THEN {} ELSE got[t])
        /\ UNCHANGED wrapper
  /\ UNCHANGED <<op, calls, pack_selected>>
  /\ UNCHANGED apart

\* start(): nothing when running; else is_running = True and a new thread
\* that runs _async_main (followed while no earlier worker thread is alive)
wrapper_start(t) ==
  /\ WrapperCall(t, "start")
  /\ IF wrapper.is_running
     THEN UNCHANGED wrapper
     ELSE /\ wrapper.pc \in {"none", "exited"}
          /\ wrapper' = [wrapper EXCEPT !.is_running = TRUE, !.pc = "idle"]
  /\ WrapperReturn(t, "None", "done", got[t])
  /\ UNCHANGED pack_selected
  /\ UNCHANGED apart

\* stop(): nothing when not running; else is_running = False, a disconnect
\* is put on the command queue, and the thread is joined
wrapper_stop(t) ==
  /\ WrapperCall(t, "stop")
  /\ IF ~wrapper.is_running
     THEN /\ WrapperReturn(t, "None", "notrunning", got[t])
          /\ UNCHANGED wrapper
     ELSE /\ wrapper' = [wrapper EXCEPT
                           !.is_running = FALSE,
                           !.command_queue =
                              Append(@, [action |-> "disconnect",
                                         register |-> 0, value |-> 0])]
          /\ pc' = [pc EXCEPT ![t] = "join"]
          /\ how' = [how EXCEPT ![t] = "-"]
          /\ ret' = [ret EXCEPT ![t] = "-"]
          /\ UNCHANGED got
  /\ UNCHANGED pack_selected
  /\ UNCHANGED apart

\* stop(): self.loop_thread.join(timeout=5.0) is over: the thread has
\* ended, or the 5 s have passed
wrapper_join(t) ==
  /\ program = "DomoticzBluettiWrapper"
  /\ pc[t] = "join"
  /\ WrapperReturn(t, "None",
                   IF wrapper.pc = "exited" THEN "done" ELSE "timeout",
                   got[t])
  /\ UNCHANGED <<op, calls, wrapper, pack_selected>>
  /\ UNCHANGED apart

WrapperThreadStep(t) ==
  \/ wrapper_start(t)
  \/ wrapper_stop(t)
  \/ wrapper_join(t)
  \/ wrapper_connect(t)
  \/ wrapper_disconnect(t)
  \/ wrapper_poll_data(t)
  \/ wrapper_send_command(t)
  \/ wrapper_result(t)

\* Every connect request creates one BluetoothClient.
ClientIds == 1..MaxWrapperCalls

\* A wrapper as constructed, or after start() and a connect() that
\* succeeded.
InitWrapper ==
  /\ is_connected = FALSE
  /\ loop = 0
  /\ runner = 0
  /\ lock = "free"
  /\ running = {}
  /\ nloops = 0
  /\ tasks = <<>>
  /\ notification_queue = <<>>
  /\ link = FALSE
  /\ notifying = FALSE
  /\ devResp = <<>>
  /\ pc = [t \in Threads |-> "idle"]
  /\ fut = [t \in Threads |-> 0]
  /\ ret = [t \in Threads |-> "-"]
  /\ inPerform = [t \in Threads |-> FALSE]
  /\ arg = [t \in Threads |-> NoCommand]
  /\ op = [t \in Threads |-> "-"]
  /\ how = [t \in Threads |-> "-"]
  /\ calls = 0
  /\ mtu = BigMtu
  /\ sync = [client |-> 0, connected |-> FALSE]
  /\ sa = <<>>
  /\ pack_selected = 0
  /\ got = [t \in Threads |-> {}]
  /\ program = "DomoticzBluettiWrapper"
  /\ now = 0
  /\ codec = NoCodec
  /\ plugin = NoPlugin
  /\ observed = [validated |-> <<>>, parsed |-> <<>>,
                 connectFailed |-> FALSE]
  /\ \/ wrapper = NoWrapper
     \/ wrapper = [NoWrapper EXCEPT
                     !.is_running = TRUE, !.is_connected = TRUE,
                     !.ble_client = 1, !.pc = "idle",
                     !.clients = <<[NewBluetoothClient
                                      EXCEPT !.is_ready = TRUE]>>]

NextWrapper ==
  \/ \E t \in Threads : WrapperThreadStep(t)
  \/ async_main
  \/ async_main_exit
  \/ async_connect
  \/ async_connect_wait
  \/ async_disconnect
  \/ async_poll_data
  \/ async_poll_command
  \/ async_poll_settle
  \/ async_send_command
  \/ \E c \in ClientIds : ble_ready(c)
  \/ \E c \in ClientIds : ble_lost(c)
  \/ \E c \in ClientIds : ble_failed(c)

SpecWrapper == InitWrapper /\ [][NextWrapper]_vars

\* ------------------------------------------------------------------ C19

\* _async_poll_data at an entry of kind `kind` of its script.
WrapperPollAt(kind) ==
  /\ wrapper.pc = "polling"
  /\ WrapperScript[wrapper.k].kind = kind

\* The result _async_main posts in this step.
Posted == wrapper'.result_queue[Len(wrapper'.result_queue)]

\* C19: a poll cycle ends at a pack slot only at the last slot, the earlier
\* slots' failures notwithstanding, and the map it returns has every field
\* the cycle has decoded.
C19_PartialMapKept ==
  [][ ((WrapperPollAt("select") \/ WrapperPollAt("pack"))
        /\ wrapper'.pc = "idle")
      => /\ WrapperScript[wrapper.k].slot = MaxWrapperPack
         /\ Keys(wrapper.fields) \subseteq Keys(Posted.out) ]_vars

\* ------------------------------------------------------------------ C20

\* C20: whatever a main read command ends with, the poll cycle goes on to
\* the next command of its script: the later main reads, then the pack
\* slots.
C20_MainFailureGoesOn ==
  [][ (WrapperPollAt("main")
        /\ (wrapper'.pc # wrapper.pc \/ wrapper'.k # wrapper.k))
      => /\ wrapper'.pc = "polling"
         /\ wrapper'.k = wrapper.k + 1 ]_vars

\* --------------------------------------------------- the two poll cycles

\* A program that polls through a SyncBluettiClient, or one that polls
\* through a DomoticzBluettiWrapper.
InitPolls == InitSync \/ InitWrapper

NextPolls == NextSync \/ NextWrapper

SpecPolls == InitPolls /\ [][NextPolls]_vars

\* ------------------------------------------------------------------ C21

\* The keys whose entry differs between two field maps.
Changed(old, new) == Keys((old \ new) \cup (new \ old))

\* The keys of slot n.
PackKeys(slot) ==
  {PackKey(slot, name) :
     name \in {"total_voltage", "pack_voltage", "battery_percent"}}

\* poll_all_data i leaves the pack read of a slot.
PackReadEnds(i) ==
  /\ PollAt(i, "pack")
  /\ tasks'[i].k # tasks[i].k

\* _async_poll_data leaves the pack read of a slot.
WrapperPackReadEnds ==
  /\ WrapperPollAt("pack")
  /\ wrapper'.k # wrapper.k

\* C21 as stated: every key a pack read of slot n writes or overwrites in
\* the field map is a key namespaced with n (pack_n_...).
C21_PackKeysNamespaced ==
  [][ /\ \A i \in SyncTaskIds :
           PackReadEnds(i) =>
             Changed(sa[tasks[i].obj].fields, sa'[tasks[i].obj].fields)
               \subseteq PackKeys(PollScript[tasks[i].k].slot)
      /\ WrapperPackReadEnds =>
           Changed(wrapper.fields, wrapper'.fields)
             \subseteq PackKeys(WrapperScript[wrapper.k].slot) ]_vars

\* C21 amended: a pack read of slot n writes the slot's three values under
\* the keys pack_n_..., and besides them only the key pack_num_max_bms, which
\* has no slot index, while the map has none (in the wrapper: none or 0); no
\* key of another slot and no other key is changed.
C21_PackKeysNamespacedButMaxBms ==
  [][ /\ \A i \in SyncTaskIds :
           PackReadEnds(i) =>
             LET old == sa[tasks[i].obj].fields
                 ch == Changed(old, sa'[tasks[i].obj].fields)
             IN  /\ ch \subseteq PackKeys(PollScript[tasks[i].k].slot)
                                  \cup {"pack_num_max_bms"}
                 /\ "pack_num_max_bms" \in ch
                      => "pack_num_max_bms" \notin Keys(old)
      /\ WrapperPackReadEnds =>
           LET old == wrapper.fields
               ch == Changed(old, wrapper'.fields)
           IN  /\ ch \subseteq PackKeys(WrapperScript[wrapper.k].slot)
                                \cup {"pack_num_max_bms"}
               /\ "pack_num_max_bms" \in ch
                    => \/ "pack_num_max_bms" \notin Keys(old)
                       \/ Value(old, "pack_num_max_bms") = 0 ]_vars

\* A poll cycle has merged the pack reads of two slots.
C21_Witness ==
  /\ PackKeys(1) \cup PackKeys(2) \cup {"pack_num_max_bms"}
       \subseteq Keys(wrapper.fields)
  /\ Value(wrapper.fields, PackKey(2, "battery_percent")) = 52

\* ------------------------------------------------------------------ C22

\* poll_all_data i has cleared the field map and has not returned yet.
InCycle(i) ==
  /\ i \in DOMAIN tasks
  /\ tasks[i].co = "poll_all_data"
  /\ tasks[i].k \in 1..Len(PollScript)

\* C22: from the clearing of the field map at its start until it returns the
\* map, a poll cycle is the only one that writes the map: the map it returns
\* holds no field cleared or written by another poll cycle.
C22_MapOfOneCycle ==
  [][ \A i \in SyncTaskIds :
        (InCycle(i)
         /\ sa'[tasks[i].obj].fields # sa[tasks[i].obj].fields)
        => tasks'[i] # tasks[i] ]_vars

\* ------------------------------------------------------------------ C23

\* send_command i returns True to a caller that waits for it.
SendReturnsTrue(i) ==
  /\ i \in DOMAIN tasks
  /\ tasks[i].co = "send_command"
  /\ tasks[i].pc # "done"
  /\ tasks'[i].pc = "done"
  /\ tasks'[i].res = "True"

\* C23: send_command returns True only when the device has answered its
\* write: the response it returns True for is the device's answer to that
\* write command.
C23_TrueOnlyIfAnswered ==
  [][ \A i \in SyncTaskIds :
        SendReturnsTrue(i) =>
          \E p \in 0..MaxPack :
            sa[tasks[i].obj].response_data
              \in DeviceAnswers[WriteSingleRegister(tasks[i].reg,
                                                    tasks[i].val), p] ]_vars

\* ------------------------------------------------------------------ C24

\* Coroutine i is a send_command that has not returned.
Sending(i) ==
  /\ i \in DOMAIN tasks
  /\ tasks[i].co = "send_command"
  /\ tasks[i].pc # "done"

\* C24: a send_command writes one command to the device, the register write
\* it was called with, and then only waits for the response and returns: it
\* writes no read command, starts no poll cycle and leaves the field map as
\* it is.
C24_SendWritesOnce ==
  [][ /\ \A i \in SyncTaskIds :
           (Sending(i) /\ tasks'[i] # tasks[i]) =>
             LET o == tasks[i].obj
             IN  /\ sa'[o].fields = sa[o].fields
                 /\ tasks'[i].co = "send_command"
                 /\ tasks'[i].k <= 1
                 /\ Writes(i, o) =>
                      /\ tasks[i].k = 1
                      /\ Script(tasks[i])[1].cmd
                           = WriteSingleRegister(tasks[i].reg, tasks[i].val)
                 /\ tasks[i].pc \in {"wait", "woken"} =>
                      tasks'[i].pc \in {"wait", "woken", "done"}
      /\ Worker("command") =>
           /\ wrapper'.fields = wrapper.fields
           /\ wrapper'.pc \in {"command", "idle"} ]_vars

\* A send_command has written its register and returned True while the
\* field map holds the fields of a poll.
C24_Witness ==
  \E i \in SyncTaskIds :
    /\ i \in DOMAIN tasks
    /\ tasks[i].co = "send_command"
    /\ tasks[i].pc = "done"
    /\ tasks[i].res = "True"
    /\ sa[tasks[i].obj].fields # {}

\* ------------------------------------------------------- the codec alone

\* The longest read whose response the codec is given.
CodecMaxQuantity == 2

\* The commands the codec is given: reads and writes whose two fields take
\* small, large and extreme 16-bit values.
CodecCommands ==
  {ReadHoldingRegisters(a, q) :
     a \in {0, 10, 3001, 65535}, q \in {0, 1, 2, 40, 65535}}
  \cup {WriteSingleRegister(a, v) :
          a \in {3006, 3007, 65535}, v \in {0, 1, 256, 65535}}

\* command.encode()
codec_encode ==
  /\ codec.stage = "command"
  /\ codec' = [codec EXCEPT !.frame = encode(codec.command),
                            !.stage = "encoded"]
  /\ UNCHANGED <<pc, fut, ret, op, how, calls, loop, running, nloops, tasks,
                 observed>>
  /\ UNCHANGED <<facade, arg, mtu, now, wrapper, plugin, standalone>>

\* _perform: the device's whole response to the command, and the
\* command.response_size() its length is compared with
codec_answer ==
  /\ codec.stage = "command"
  /\ codec.command.fc = 6 \/ codec.command.arg <= CodecMaxQuantity
  /\ codec' = [codec EXCEPT !.frame = DeviceFrame(codec.command, 0),
                            !.size = response_size(codec.command),
                            !.stage = "answered"]
  /\ UNCHANGED <<pc, fut, ret, op, how, calls, loop, running, nloops, tasks,
                 observed>>
  /\ UNCHANGED <<facade, arg, mtu, now, wrapper, plugin, standalone>>

\* One byte of a frame the validator has accepted is changed in transit.
codec_corrupt ==
  /\ codec.stage \in {"encoded", "answered"}
  /\ codec.valid = "True"
  /\ \E at \in 1..Len(codec.frame) :
       \E byte \in (0..255) \ {codec.frame[at]} :
         codec' = [codec EXCEPT !.frame = [@ EXCEPT ![at] = byte],
                                !.stage = "corrupted", !.valid = "-"]
  /\ UNCHANGED <<pc, fut, ret, op, how, calls, loop, running, nloops, tasks,
                 observed>>
  /\ UNCHANGED <<facade, arg, mtu, now, wrapper, plugin, standalone>>

\* Only the first bytes of a frame arrive, fewer than three.
codec_cut ==
  /\ codec.stage \in {"encoded", "answered"}
  /\ \E n \in 0..2 :
       codec' = [codec EXCEPT !.frame = SubSeq(@, 1, n),
                              !.stage = "cut", !.valid = "-"]
  /\ UNCHANGED <<pc, fut, ret, op, how, calls, loop, running, nloops, tasks,
                 observed>>
  /\ UNCHANGED <<facade, arg, mtu, now, wrapper, plugin, standalone>>

\* command.is_valid_response(frame)
codec_validate ==
  /\ codec.stage \in {"encoded", "answered", "corrupted", "cut"}
  /\ codec.valid = "-"
  /\ codec' = [codec EXCEPT
                 !.valid = IF is_valid_response(codec.frame) THEN "True"
                           ELSE "False"]
  /\ UNCHANGED <<pc, fut, ret, op, how, calls, loop, running, nloops, tasks,
                 observed>>
  /\ UNCHANGED <<facade, arg, mtu, now, wrapper, plugin, standalone>>

\* A command as its constructor leaves it, nothing else in the program.
InitCodec ==
  /\ is_connected = FALSE
  /\ loop = 0
  /\ runner = 0
  /\ lock = "free"
  /\ running = {}
  /\ nloops = 0
  /\ tasks = <<>>
  /\ notification_queue = <<>>
  /\ link = FALSE
  /\ notifying = FALSE
  /\ devResp = <<>>
  /\ pc = [t \in Threads |-> "idle"]
  /\ fut = [t \in Threads |-> 0]
  /\ ret = [t \in Threads |-> "-"]
  /\ inPerform = [t \in Threads |-> FALSE]
  /\ arg = [t \in Threads |-> NoCommand]
  /\ op = [t \in Threads |-> "-"]
  /\ how = [t \in Threads |-> "-"]
  /\ calls = 0
  /\ mtu = Mtu
  /\ sync = [client |-> 0, connected |-> FALSE]
  /\ sa = <<>>
  /\ pack_selected = 0
  /\ got = [t \in Threads |-> {}]
  /\ program = "ModbusCommand"
  /\ now = 0
  /\ wrapper = NoWrapper
  /\ plugin = NoPlugin
  /\ observed = [validated |-> <<>>, parsed |-> <<>>,
                 connectFailed |-> FALSE]
  /\ \E command \in CodecCommands :
       codec = [NoCodec EXCEPT !.command = command, !.stage = "command"]

NextCodec ==
  \/ codec_encode
  \/ codec_answer
  \/ codec_corrupt
  \/ codec_cut
  \/ codec_validate

SpecCodec == InitCodec /\ [][NextCodec]_vars

\* ------------------------------------------------------------------ C25

\* C25: the validator accepts every frame encode produces: the CRC the
\* encoder appends is the CRC the validator recomputes.
C25_EncodedIsValid ==
  (codec.stage = "encoded" /\ codec.valid # "-") => codec.valid = "True"

\* The frame of a write whose fields are both 0xFFFF has been validated.
C25_Witness ==
  /\ codec.stage = "encoded"
  /\ codec.command = WriteSingleRegister(65535, 65535)
  /\ codec.valid = "True"

\* ------------------------------------------------------------------ C26

\* C26: a frame the validator accepted is rejected once any one of its bytes
\* has been changed to another value, and a frame shorter than three bytes
\* is rejected.
C26_CorruptedIsInvalid ==
  (codec.stage \in {"corrupted", "cut"} /\ codec.valid # "-")
    => codec.valid = "False"

\* A response whose last CRC byte was changed has been rejected.
C26_Witness ==
  /\ codec.stage = "corrupted"
  /\ codec.valid = "False"
  /\ codec.command = ReadHoldingRegisters(10, 2)
  /\ SubSeq(codec.frame, 1, 8) = SubSeq(DeviceFrame(codec.command, 0), 1, 8)
  /\ codec.frame # DeviceFrame(codec.command, 0)

\* ------------------------------------------------------------------ C27

\* The Modbus CRC-16 of a sequence of bytes, bit by bit: the register starts
\* at 0xFFFF, each byte is xored into its low byte and followed by eight
\* shifts to the right, each xoring 0xA001 in when a 1 falls out.
RECURSIVE Crc16(_, _)
Crc16(data, n) ==
  IF n = 0 THEN 65535
  ELSE LET x == BitXor(Crc16(data, n - 1), data[n])
       IN  CrcShift(CrcShift(CrcShift(CrcShift(
             CrcShift(CrcShift(CrcShift(CrcShift(x))))))))

\* C27: encode gives eight bytes: 0x01, the function code, the two fields
\* high byte first, and the Modbus CRC-16 of these six bytes low byte first;
\* ReadHoldingRegisters(10, 40) gives 01 03 00 0A 00 28 65 D6.
C27_EncodeLayout ==
  codec.stage = "encoded" =>
    LET f == codec.frame
        c == codec.command
    IN  /\ Len(f) = 8
        /\ f[1] = 1
        /\ f[2] = c.fc
        /\ c = ReadHoldingRegisters(c.addr, c.arg) => f[2] = 3
        /\ c = WriteSingleRegister(c.addr, c.arg) => f[2] = 6
        /\ f[3] * 256 + f[4] = c.addr
        /\ f[5] * 256 + f[6] = c.arg
        /\ f[7] + 256 * f[8] = Crc16(f, 6)
        /\ \A n \in 1..8 : f[n] \in 0..255
        /\ c = ReadHoldingRegisters(10, 40)
             => f = <<1, 3, 0, 10, 0, 40, 101, 214>>

\* ReadHoldingRegisters(10, 40) has been encoded.
C27_Witness ==
  /\ codec.stage = "encoded"
  /\ codec.command = ReadHoldingRegisters(10, 40)
  /\ Len(codec.frame) = 8

\* ------------------------------------------------------------------ C28

PerformWrites(i) ==
  /\ i \in DOMAIN tasks
  /\ tasks[i].co = "_perform"
  /\ tasks[i].pc = "start"
  /\ tasks'[i].pc = "wait"

\* Another _perform than i is waiting for chunks.
OtherWaits(i) ==
  \E j \in DOMAIN tasks \ {i} :
    tasks[j].co = "_perform" /\ tasks[j].pc = "wait"

\* C29: when a transaction has written its command the notification queue
\* holds no chunk of an earlier transaction: the chunks its _perform takes
\* from the queue, the first of which is the head of the queue at that
\* moment, have all arrived after the write.
C29_NoStaleChunk ==
  [][ \A i \in TaskIds :
        (PerformWrites(i) /\ ~OtherWaits(i))
          => notification_queue' = <<>> ]_vars

\* ------------------------------------------------------------------ C30

\* C30: a thread that has called connect(), disconnect() or perform() gets
\* its call back in the end and does not hold the lock then, whichever way
\* the call went, perform()'s handler that calls disconnect() included.
C30_CallsReturn ==
  \A t \in Threads :
    (pc[t] # "idle") ~> (pc[t] = "idle" /\ lock # t)

\* ------------------------------------------------------------------ C31

\* _perform i takes a chunk from the queue.
PerformTakes(i) ==
  /\ i \in DOMAIN tasks
  /\ tasks[i].co = "_perform"
  /\ tasks[i].pc = "wait"
  /\ notification_queue' # notification_queue
  /\ Len(notification_queue') < Len(notification_queue)

\* The buffer of _perform i with the chunk it takes.
Buffer(i) == tasks[i].response \o Head(notification_queue)

\* The length of the device's response to the command of transaction i.
Expected(i) == Len(DeviceFrame(tasks[i].cmd, 0))

\* C31: _perform goes on accumulating while its buffer is shorter than the
\* expected response; with the chunk that brings the buffer to that length
\* it returns, the decoded payload if the buffer validates and None if not,
\* and what it has returned stays.
C31_DecidedAtThreshold ==
  [][ \A i \in TaskIds :
        /\ PerformTakes(i) =>
             /\ Len(tasks[i].response) < Expected(i)
             /\ Len(Buffer(i)) < Expected(i) =>
                  /\ tasks'[i].pc = "wait"
                  /\ tasks'[i].response = Buffer(i)
                  /\ ~tasks'[i].ok
             /\ Len(Buffer(i)) >= Expected(i) =>
                  /\ tasks'[i].pc = "done"
                  /\ tasks'[i].ok <=> is_valid_response(Buffer(i))
                  /\ tasks'[i].ok => tasks'[i].res = parse_response(Buffer(i))
                  /\ ~tasks'[i].ok => tasks'[i].res = <<>>
        /\ (i \in DOMAIN tasks /\ tasks[i].pc = "done")
             => tasks'[i] = tasks[i] ]_vars

\* Every chunk of a damaged response came before the timeout and _perform
\* has returned None.
C31_Witness ==
  /\ program = "_perform"
  /\ tasks[1].pc = "done" /\ ~tasks[1].ok
  /\ now = 0
  /\ devResp = <<>> /\ notification_queue = <<>>

\* ------------------------------------------------------------------ C32

\* The first n bytes of a buffer.
Prefix(buffer, n) == SubSeq(buffer, 1, n)

\* C32: when a chunk makes the buffer longer than the expected response,
\* _perform validates and decodes the first expected-size bytes and ignores
\* the rest: a valid response followed by further bytes yields its payload.
C32_SurplusIgnored ==
  [][ \A i \in TaskIds :
        (PerformTakes(i) /\ Len(Buffer(i)) > Expected(i)) =>
          /\ tasks'[i].pc = "done"
          /\ tasks'[i].ok <=> is_valid_response(Prefix(Buffer(i), Expected(i)))
          /\ tasks'[i].ok =>
               tasks'[i].res = parse_response(Prefix(Buffer(i), Expected(i)))
    ]_vars

\* ------------------------------------------------------------------ C33

\* C33: a transaction writes its command once.  A _perform that has written
\* never comes back to its write, whatever it returns; a perform_command
\* that has written command k of its coroutine's script is followed, if by a
\* write at all, by the write of a later command of the script.
C33_WrittenOnce ==
  [][ /\ \A i \in TaskIds :
           (i \in DOMAIN tasks /\ tasks[i].co = "_perform"
            /\ tasks[i].pc \in {"wait", "done"})
             => tasks'[i].pc \in {"wait", "done"}
      /\ \A i \in SyncTaskIds :
           (i \in DOMAIN tasks
            /\ tasks[i].co \in {"poll_all_data", "send_command"}
            /\ tasks[i].pc \in {"wait", "woken", "sleep", "done"})
             => \/ tasks'[i].pc # "write"
                \/ tasks'[i].k > tasks[i].k ]_vars

\* A perform() has returned None for a transaction that wrote its command
\* and got no valid response.
C33_Witness ==
  \E t \in Threads :
    /\ op[t] = "perform" /\ pc[t] = "idle"
    /\ how[t] = "done" /\ ret[t] = "None"

\* ------------------------------------------------------------------ C34

\* Thread t puts a request on the command queue.
Enqueues(t) ==
  /\ pc[t] = "idle"
  /\ pc'[t] = "result"

\* A result in the result queue that no call is waiting for: the call that
\* asked for it has returned on its timeout.
Stale(r) ==
  \A u \in Threads : ~(pc[u] = "result" /\ ActionOf(op[u]) = r.action)

\* C34: a call gets the result of the request it has put on the command
\* queue.  When it puts its request no result of a timed-out earlier request
\* for the same action is waiting in the result queue, and a result that is
\* taken off the result queue is returned by the call that took it.
C34_OwnResult ==
  [][ /\ \A t \in Threads :
           Enqueues(t) =>
             \A n \in 1..Len(wrapper.result_queue) :
               Stale(wrapper.result_queue[n]) =>
                 wrapper.result_queue[n].action # ActionOf(op'[t])
      /\ Len(wrapper'.result_queue) < Len(wrapper.result_queue) =>
           \E t \in Threads :
             /\ pc[t] = "result" /\ pc'[t] = "idle"
             /\ how'[t] = "done"
             /\ ret'[t] = Head(wrapper.result_queue).res ]_vars

\* ------------------------------------------------------------------ C35

\* The action of the command the worker is running, "-" when it runs none.
Running(w) ==
  IF w.pc \in {"connect", "connecting"} THEN "connect"
  ELSE IF w.pc \in {"poll", "polling", "settle"} THEN "poll"
  ELSE IF w.pc \in {"disconnect", "command"} THEN w.pc
  ELSE "-"

C36_StopDisconnects ==
  wrapper.pc = "exited" =>
    /\ ~wrapper.is_connected
    /\ \A c \in DOMAIN wrapper.clients : wrapper.clients[c].task # "running"

\* ------------------------------------------------------------ BasePlugin
\*
\* plugin.py: the Domoticz host calls onStart, onHeartbeat, onCommand and
\* onStop one after the other; onStart starts the update thread, which runs
\* handle_thread.  The plugin drives a DomoticzBluettiClient, whose blocking
\* methods return what DomoticzBluettiWrapper's methods can return.

\* Items the host's callbacks put on the command queue.
MaxPuts == 3
\* The polling interval and the last instant of the clock, in ticks of
\* time.time().
PollingInterval == 2
MaxPluginTime == 4

\* What the plugin's actions never change.
besides ==
  <<facade, standalone, loop, running, nloops, tasks, pc, fut, ret, arg, op,
    how, calls, mtu, wrapper, codec, observed>>

\* The update thread is at `at` of handle_thread.
UpdateThread(at) ==
  /\ program = "BasePlugin"
  /\ plugin.thread = at

\* self.update_thread.is_alive()
is_alive == plugin.thread \notin {"none", "finished"}

\* The items put so far by the host's callbacks.
HostPuts ==
  Cardinality({n \in 1..Len(plugin.puts) : plugin.puts[n] # "_send_command"})

\* self.command_queue.put(item) by `by`: the item gets the next number, and
\* remembers whether the update thread was alive and not shut down.
Put(p, kind, register, value, by) ==
  [p EXCEPT
     !.command_queue =
        Append(@, [kind |-> kind, register |-> register, value |-> value,
                   id |-> Len(p.puts) + 1, by |-> by,
                   live |-> is_alive /\ p.shutdown_event = "clear"]),
     !.puts = Append(@, by)]

\* onStart: without a MAC address nothing is started; else the shutdown
\* event is created and the update thread started
onStart ==
  /\ program = "BasePlugin"
  /\ plugin.host = "loaded"
  /\ \E configured \in BOOLEAN :
       plugin' = IF configured
                 THEN [plugin EXCEPT !.host = "started",
                                     !.shutdown_event = "clear",
                                     !.thread = "begin"]
                 ELSE [plugin EXCEPT !.host = "started"]
  /\ UNCHANGED now
  /\ UNCHANGED besides

\* onStop: the shutdown event is set if there is one; the join of the update
\* thread ends when the thread does or after 15 s
onStop ==
  /\ program = "BasePlugin"
  /\ plugin.host = "started"
  /\ plugin' = [plugin EXCEPT
                  !.host = "stopped",
                  !.shutdown_event = IF @ = "None" THEN @ ELSE "set"]
  /\ UNCHANGED now
  /\ UNCHANGED besides

\* onHeartbeat leaving next_poll_time as it is.
onHeartbeat_same_poll_time ==
  /\ program = "BasePlugin"
  /\ plugin.host = "started"
  /\ HostPuts < MaxPuts
  /\ is_alive
  /\ now >= plugin.next_poll_time
  /\ plugin' = [Put(plugin, "POLL_DATA", 0, 0, "onHeartbeat")
                  EXCEPT !.polled = now]
  /\ UNCHANGED now
  /\ UNCHANGED besides

\* onHeartbeat: nothing unless the update thread is alive and
\* next_poll_time has come; then POLL_DATA is put on the queue and
\* next_poll_time moved one polling interval on
onHeartbeat ==
  /\ program = "BasePlugin"
  /\ plugin.host = "started"
  /\ HostPuts < MaxPuts
  /\ is_alive
  /\ now >= plugin.next_poll_time
  /\ plugin' = [Put(plugin, "POLL_DATA", 0, 0, "onHeartbeat")
                  EXCEPT !.next_poll_time = now + PollingInterval,
                         !.polled = now]
  /\ UNCHANGED now
  /\ UNCHANGED besides

\* The registers and values onCommand derives from a unit and a command.
PluginCommands == {<<3007, 1>>, <<3007, 0>>, <<3001, 2>>}

\* onCommand for a unit with a Bluetti action: SEND_COMMAND with the
\* register and the value is put on the queue (other units: nothing)
onCommand ==
  /\ program = "BasePlugin"
  /\ plugin.host = "started"
  /\ HostPuts < MaxPuts
  /\ \E c \in PluginCommands :
       plugin' = Put(plugin, "SEND_COMMAND", c[1], c[2], "onCommand")
  /\ UNCHANGED now
  /\ UNCHANGED besides

\* time.time() moves on.
plugin_tick ==
  /\ program = "BasePlugin"
  /\ plugin.host = "started"
  /\ now < MaxPluginTime
  /\ now' = now + 1
  /\ UNCHANGED plugin
  /\ UNCHANGED besides

\* handle_thread: DomoticzBluettiClient(mac) and start(), which sets
\* is_running and starts the worker thread, or raises when no thread can be
\* started
handle_thread_start ==
  /\ UpdateThread("begin")
  /\ \E started \in BOOLEAN :
       plugin' = [plugin EXCEPT !.bluetti_client = "running",
                                !.thread = IF started THEN "connect"
                                           ELSE "finally"]
  /\ UNCHANGED now
  /\ UNCHANGED besides

\* handle_thread: if not self.bluetti_client.connect(): return
handle_thread_connect ==
  /\ UpdateThread("connect")
  /\ \E result \in BOOLEAN :
       plugin' = [plugin EXCEPT !.thread = IF result THEN "loop"
                                           ELSE "finally"]
  /\ UNCHANGED now
  /\ UNCHANGED besides

\* The loop of handle_thread going on whatever the shutdown event says.
handle_thread_loop_forever ==
  /\ UpdateThread("loop")
  /\ plugin' = [plugin EXCEPT !.thread = "get"]
  /\ UNCHANGED now
  /\ UNCHANGED besides

\* handle_thread: while not self.shutdown_event.is_set()
handle_thread_loop ==
  /\ UpdateThread("loop")
  /\ plugin' = [plugin EXCEPT
                  !.thread = IF plugin.shutdown_event = "set" THEN "finally"
                             ELSE "get"]
  /\ UNCHANGED now
  /\ UNCHANGED besides

\* command_queue.get_nowait() giving the item put last.
handle_thread_get_newest ==
  /\ UpdateThread("get")
  /\ IF plugin.command_queue = <<>>
     THEN plugin' = [plugin EXCEPT !.thread = "wait"]
     ELSE LET n == Len(plugin.command_queue)
              item == plugin.command_queue[n]
          IN  plugin' = [plugin EXCEPT
                           !.command_queue = SubSeq(@, 1, n - 1),
                           !.item = item.id,
                           !.details = <<item.register, item.value>>,
                           !.taken = Append(@, item.id),
                           !.thread = IF item.kind = "POLL_DATA" THEN "poll"
                                      ELSE "send"]
  /\ UNCHANGED now
  /\ UNCHANGED besides

\* handle_thread: item = self.command_queue.get_nowait(), and the branch
\* the item selects; queue.Empty: on to the wait
handle_thread_get ==
  /\ UpdateThread("get")
  /\ IF plugin.command_queue = <<>>
     THEN plugin' = [plugin EXCEPT !.thread = "wait"]
     ELSE LET item == Head(plugin.command_queue)
          IN  plugin' = [plugin EXCEPT
                           !.command_queue = Tail(@),
                           !.item = item.id,
                           !.details = <<item.register, item.value>>,
                           !.taken = Append(@, item.id),
                           !.thread = IF item.kind = "POLL_DATA" THEN "poll"
                                      ELSE "send"]
  /\ UNCHANGED now
  /\ UNCHANGED besides

\* _poll_data: self.bluetti_client.poll_data() has returned, the devices are
\* updated; task_done()
plugin_poll_data ==
  /\ UpdateThread("poll")
  /\ plugin' = [plugin EXCEPT !.item = 0, !.details = <<>>,
                              !.thread = "wait"]
  /\ UNCHANGED now
  /\ UNCHANGED besides

\* _send_command queueing a poll whatever send_command() returned.
plugin_send_command_then_poll ==
  /\ UpdateThread("send")
  /\ \E success \in {"True", "False", "raise"} :
       plugin' = [plugin EXCEPT !.success = success, !.details = <<>>,
                                !.thread = "sleep"]
  /\ UNCHANGED now
  /\ UNCHANGED besides

\* _send_command: details without a register or a value (None: -1) are
\* logged as invalid; else success = self.bluetti_client.send_command(register, value):
\* on success the 5 s sleep, else (False, or an exception, which is logged)
\* the end of the method and task_done()
plugin_send_command ==
  /\ UpdateThread("send")
  /\ \E success \in IF -1 \in {plugin.details[1], plugin.details[2]}
                    THEN {"invalid"}
                    ELSE {"True", "False", "raise"} :
       plugin' = [plugin EXCEPT
                    !.success = success,
                    !.details = <<>>,
                    !.item = IF success = "True" THEN @ ELSE 0,
                    !.thread = IF success = "True" THEN "sleep" ELSE "wait"]
  /\ UNCHANGED now
  /\ UNCHANGED besides

\* _send_command: after time.sleep(5), self.command_queue.put("POLL_DATA");
\* task_done()
plugin_queue_poll ==
  /\ UpdateThread("sleep")
  /\ plugin' = [Put(plugin, "POLL_DATA", 0, 0, "_send_command")
                  EXCEPT !.item = 0, !.thread = "wait"]
  /\ UNCHANGED now
  /\ UNCHANGED besides

\* handle_thread: self.shutdown_event.wait(1.0) is over
handle_thread_wait ==
  /\ UpdateThread("wait")
  /\ plugin' = [plugin EXCEPT !.thread = "loop"]
  /\ UNCHANGED now
  /\ UNCHANGED besides

\* handle_thread, finally: self.bluetti_client.disconnect()
handle_thread_finally ==
  /\ UpdateThread("finally")
  /\ plugin' = [plugin EXCEPT !.disconnects = @ + 1, !.thread = "stop"]
  /\ UNCHANGED now
  /\ UNCHANGED besides

\* handle_thread, finally: self.bluetti_client.stop(), which clears
\* is_running; the thread ends
handle_thread_stop ==
  /\ UpdateThread("stop")
  /\ plugin' = [plugin EXCEPT !.stops = @ + 1,
                              !.bluetti_client = "stopped",
                              !.thread = "finished"]
  /\ UNCHANGED now
  /\ UNCHANGED besides

\* A step of the update thread.
handle_thread ==
  \/ handle_thread_start
  \/ handle_thread_connect
  \/ handle_thread_loop
  \/ handle_thread_get
  \/ plugin_poll_data
  \/ plugin_send_command
  \/ plugin_queue_poll
  \/ handle_thread_wait
  \/ handle_thread_finally
  \/ handle_thread_stop

\* The plugin as the host has loaded it.
InitPlugin ==
  /\ is_connected = FALSE
  /\ loop = 0
  /\ runner = 0
  /\ lock = "free"
  /\ running = {}
  /\ nloops = 0
  /\ tasks = <<>>
  /\ notification_queue = <<>>
  /\ link = FALSE
  /\ notifying = FALSE
  /\ devResp = <<>>
  /\ pc = [t \in Threads |-> "idle"]
  /\ fut = [t \in Threads |-> 0]
  /\ ret = [t \in Threads |-> "-"]
  /\ inPerform = [t \in Threads |-> FALSE]
  /\ arg = [t \in Threads |-> NoCommand]
  /\ op = [t \in Threads |-> "-"]
  /\ how = [t \in Threads |-> "-"]
  /\ calls = 0
  /\ mtu = Mtu
  /\ sync = [client |-> 0, connected |-> FALSE]
  /\ sa = <<>>
  /\ pack_selected = 0
  /\ got = [t \in Threads |-> {}]
  /\ program = "BasePlugin"
  /\ now = 0
  /\ wrapper = NoWrapper
  /\ codec = NoCodec
  /\ plugin = NoPlugin
  /\ observed = [validated |-> <<>>, parsed |-> <<>>,
                 connectFailed |-> FALSE]

NextPlugin ==
  \/ onStart
  \/ onStop
  \/ onHeartbeat
  \/ onCommand
  \/ plugin_tick
  \/ handle_thread_start
  \/ handle_thread_connect
  \/ handle_thread_loop
  \/ handle_thread_get
  \/ plugin_poll_data
  \/ plugin_send_command
  \/ plugin_queue_poll
  \/ handle_thread_wait
  \/ handle_thread_finally
  \/ handle_thread_stop

SpecPlugin == InitPlugin /\ [][NextPlugin]_vars

\* The update thread is a thread of the operating system and each of its
\* blocking calls has a timeout: it goes on taking steps.
FairSpecPlugin == SpecPlugin /\ WF_vars(handle_thread)

\* ------------------------------------------------------------------ C37

\* The update thread is inside a call of the client for an item.
InClientCall == plugin.thread \in {"poll", "send"}

\* The update thread has left its loop or will at its next test: the shutdown
\* event is set, or the first connect has failed.
Leaving ==
  \/ plugin.shutdown_event = "set"
  \/ plugin.thread \in {"finally", "stop", "finished"}

\* C37 as stated: an item put on the command queue while the update thread was
\* alive and not shut down is taken by the update thread: none is left in
\* the queue when the thread has ended.
C37_EveryItemTaken ==
  plugin.thread = "finished" =>
    \A n \in 1..Len(plugin.command_queue) : ~plugin.command_queue[n].live

\* C37, amended: the update thread takes the items in the order they were
\* put, each once at most and one at a time: the k-th item taken is the k-th
\* put, the items of the queue are the next ones in order, and the thread
\* is inside a client call only for the item it took last.  An item that
\* waits in the queue of a plugin whose update thread was started is taken
\* unless the thread leaves its loop (shutdown, or a failed first connect),
\* and then it is never taken.
C37_TakenInOrderUnlessLeaving ==
  /\ [](/\ \A k \in 1..Len(plugin.taken) : plugin.taken[k] = k
        /\ \A n \in 1..Len(plugin.command_queue) :
             plugin.command_queue[n].id = Len(plugin.taken) + n
        /\ InClientCall =>
             /\ plugin.taken # <<>>
             /\ plugin.item = plugin.taken[Len(plugin.taken)])
  /\ \A id \in 1..(2 * MaxPuts) :
       (Len(plugin.puts) >= id /\ plugin.thread # "none")
          ~> (Len(plugin.taken) >= id \/ Leaving)
  /\ [][plugin.thread \in {"finally", "stop", "finished"}
          => plugin'.taken = plugin.taken]_vars

\* Two items have been taken and a third waits while the update thread is
\* inside send_command() for the second.
C37_Witness ==
  /\ plugin.thread = "send"
  /\ Len(plugin.taken) = 2
  /\ plugin.command_queue # <<>>
  /\ plugin.shutdown_event = "clear"

\* ------------------------------------------------------------------ C38

\* The update thread takes a step.
ThreadSteps == plugin'.thread # plugin.thread

\* The update thread puts POLL_DATA at the end of the command queue.
QueuesPoll ==
  /\ Len(plugin'.puts) = Len(plugin.puts) + 1
  /\ plugin'.puts[Len(plugin'.puts)] = "_send_command"
  /\ Len(plugin'.command_queue) = Len(plugin.command_queue) + 1
  /\ SubSeq(plugin'.command_queue, 1, Len(plugin.command_queue))
        = plugin.command_queue
  /\ plugin'.command_queue[Len(plugin'.command_queue)].kind = "POLL_DATA"

\* C38: when send_command() has returned True for a SEND_COMMAND the update
\* thread's next step puts one POLL_DATA at the end of the command queue;
\* when it has returned False or raised, and in every other step of the
\* thread, nothing is put on the queue.
C38_PollAfterSuccessOnly ==
  [][ThreadSteps =>
        /\ plugin.thread = "send" =>
             /\ plugin'.puts = plugin.puts
             /\ plugin'.thread = IF plugin'.success = "True" THEN "sleep"
                                 ELSE "wait"
        /\ plugin.thread = "sleep" => QueuesPoll /\ plugin.success = "True"
        /\ plugin.thread # "sleep" => plugin'.puts = plugin.puts
        /\ plugin'.thread = "sleep" => plugin.thread = "send"]_vars

\* A write has succeeded and its poll is in the queue, and a later write has
\* failed.
C38_Witness ==
  /\ plugin.thread = "wait"
  /\ plugin.success \in {"False", "raise"}
  /\ plugin.item = 0
  /\ \E n \in 1..Len(plugin.command_queue) :
       plugin.command_queue[n].by = "_send_command"

\* ------------------------------------------------------------------ C39

\* C39: once the shutdown event is set the update thread ends; and however
\* the thread ends (shutdown, a failed first connect, an exception of
\* start()), it has called the client's disconnect() once and then stop()
\* once, and the client is no longer running: stop() is never called before
\* disconnect(), and neither is called twice.
C39_CleanupOnEveryExit ==
  /\ (plugin.shutdown_event = "set") ~> (plugin.thread = "finished")
  /\ [](/\ plugin.stops <= plugin.disconnects
        /\ plugin.disconnects <= 1
        /\ plugin.thread = "finished" =>
             /\ plugin.disconnects = 1
             /\ plugin.stops = 1
             /\ plugin.bluetti_client = "stopped")

\* The thread has ended after a shutdown that found it in its loop, with an
\* item taken.
C39_Witness ==
  /\ plugin.thread = "finished"
  /\ plugin.shutdown_event = "set"
  /\ plugin.taken # <<>>
  /\ plugin.bluetti_client = "stopped"

\* ------------------------------------------------------------------ C40

\* onHeartbeat puts POLL_DATA on the command queue.
HeartbeatPolls ==
  /\ Len(plugin'.puts) = Len(plugin.puts) + 1
  /\ plugin'.puts[Len(plugin'.puts)] = "onHeartbeat"

\* C40: onHeartbeat puts POLL_DATA on the queue only when the update thread
\* is alive and the time has reached next_poll_time, and it then sets
\* next_poll_time one polling interval after the current time, so two polls
\* it queues are a polling interval apart at least; none is queued once the
\* update thread has ended.
C40_OnePollPerInterval ==
  [][HeartbeatPolls =>
        /\ is_alive
        /\ plugin.thread # "finished"
        /\ now >= plugin.next_poll_time
        /\ plugin'.next_poll_time = now + PollingInterval
        /\ plugin'.command_queue[Len(plugin'.command_queue)].kind
              = "POLL_DATA"
        /\ plugin.polled # -1 => now - plugin.polled >= PollingInterval]_vars

\* onHeartbeat has queued a second poll, and the time of a third has come
\* after the update thread has ended.
C40_Witness ==
  /\ Cardinality({n \in 1..Len(plugin.puts) : plugin.puts[n] = "onHeartbeat"})
        = 2
  /\ plugin.thread = "finished"
  /\ plugin.host = "started"
  /\ now >= plugin.next_poll_time
====
